---- MODULE Spec2Model ----
(***************************************************************************)
(* A model of SchemaBuilder (graphql-schema-builder 0.2.0): the registry   *)
(* of definitions / resolvers / directives, the sort rules, the pairwise   *)
(* comparator with its signal word, Array.prototype.sort as the engine     *)
(* runs it, and the recursive merge of the sorted fragments.               *)
(***************************************************************************)
EXTENDS Integers, Sequences, FiniteSets, TLC

VARIABLES
  definitions,          \* Map<string, DocumentNode>, in insertion order
  resolvers,            \* Map<string, IResolvers>, in insertion order
  directives,           \* Map<string, SchemaDirectives>, in insertion order
  heap,                 \* the objects the stored fragments are made of
  importedIdentifiers,  \* Set<string>
  sortAfterMap,         \* Map<string, Set<string>>
  sortBeforeMap,        \* Map<string, Set<string>>
  sortEndSet,           \* Set<string>
  sortStartSet,         \* Set<string>
  ret,                  \* what the last call returned or threw
  calls,                \* the importFile / importFrom calls, each at its await
  loaded,               \* the paths of the modules import() has evaluated
  engine                \* the engine the program runs on: its Array.prototype.sort

vars == <<definitions, resolvers, directives, heap, importedIdentifiers,
          sortAfterMap, sortBeforeMap, sortEndSet, sortStartSet, ret,
          calls, loaded, engine>>

registry == <<definitions, resolvers, directives, heap, importedIdentifiers>>
rules == <<sortAfterMap, sortBeforeMap, sortEndSet, sortStartSet>>
async == <<calls, loaded>>

-----------------------------------------------------------------------------
(* Identifiers and helpers *)

DefaultStart == {"index", "Query", "Mutation", "Subscription"}

EmptyMap == [x \in {} |-> {}]

Range(s) == {s[i] : i \in DOMAIN s}

MapHas(m, k) == k \in DOMAIN m

MapSet(m, k, v) == [x \in (DOMAIN m) \cup {k} |-> IF x = k THEN v ELSE m[x]]

\* the keys of a Map kept as a sequence of entries [id, val]
Keys(entries) == {entries[i].id : i \in DOMAIN entries}

EntryOf(entries, id) == entries[CHOOSE i \in DOMAIN entries : entries[i].id = id]

\* the rules as one value, as the comparator closure reads them from `this`
Store == [start |-> sortStartSet, end |-> sortEndSet,
          after |-> sortAfterMap, before |-> sortBeforeMap]

-----------------------------------------------------------------------------
(* The comparator of applySortAndMap *)

\* the weights of the eight signals
BitAUp == 1
BitBUp == 2
BitADown == 4
BitBDown == 8
BitAAfterB == 16
BitBAfterA == 32
BitABeforeB == 64
BitBBeforeA == 128

\* the start marks read for the wrong side
SignalWordUpSwapped(st, A, B) ==
    (IF B \in st.start THEN BitAUp ELSE 0)
  + (IF A \in st.start THEN BitBUp ELSE 0)
  + (IF A \in st.end THEN BitADown ELSE 0)
  + (IF B \in st.end THEN BitBDown ELSE 0)
  + (IF MapHas(st.after, A) /\ B \in st.after[A] THEN BitAAfterB ELSE 0)
  + (IF MapHas(st.after, B) /\ A \in st.after[B] THEN BitBAfterA ELSE 0)
  + (IF MapHas(st.before, A) /\ B \in st.before[A] THEN BitABeforeB ELSE 0)
  + (IF MapHas(st.before, B) /\ A \in st.before[B] THEN BitBBeforeA ELSE 0)

SignalWord(st, A, B) ==
    (IF A \in st.start THEN BitAUp ELSE 0)
  + (IF B \in st.start THEN BitBUp ELSE 0)
  + (IF A \in st.end THEN BitADown ELSE 0)
  + (IF B \in st.end THEN BitBDown ELSE 0)
  + (IF MapHas(st.after, A) /\ B \in st.after[A] THEN BitAAfterB ELSE 0)
  + (IF MapHas(st.after, B) /\ A \in st.after[B] THEN BitBAfterA ELSE 0)
  + (IF MapHas(st.before, A) /\ B \in st.before[A] THEN BitABeforeB ELSE 0)
  + (IF MapHas(st.before, B) /\ A \in st.before[B] THEN BitBBeforeA ELSE 0)

CasesUnchanged == {0, 3, 12}
\* the table with the case 105 (all that puts A first, together) left out
CasesAFirstWithout105 == {1, 8, 9, 32, 33, 40, 41, 64, 65, 72, 73, 96, 97, 104}

CasesAFirst == {1, 8, 9, 32, 33, 40, 41, 64, 65, 72, 73, 96, 97, 104, 105}
\* the table with the case 6 (A down, B up) left out
CasesBFirstWithout6 == {2, 4, 16, 18, 20, 22, 128, 130, 132, 134, 144, 146, 148, 150}
CasesBFirst == {2, 4, 6, 16, 18, 20, 22, 128, 130, 132, 134, 144, 146, 148, 150}
CasesConflictA == {5, 7, 13}
\* the table with the case 11 (B up and down, A up) left out
CasesConflictBWithout11 == {10, 14}

CasesConflictB == {10, 11, 14}
CasesConflictAB == {15, 48, 63, 192, 207, 240, 255}

sortError(kind, n, ids) ==
  [t |-> "throw", error |-> "SortError", kind |-> kind, n |-> n, identifiers |-> ids]

Number(v) == [t |-> "return", v |-> v]

SwitchOnN(n, A, B) ==
  IF n \in CasesUnchanged THEN Number(0)
  ELSE IF n \in CasesAFirst THEN Number(-1)
  ELSE IF n \in CasesBFirst THEN Number(1)
  ELSE IF n \in CasesConflictA THEN sortError("Conflict with identifier", n, <<A>>)
  ELSE IF n \in CasesConflictB THEN sortError("Conflict with identifier", n, <<B>>)
  ELSE IF n \in CasesConflictAB THEN sortError("Conflict with identifiers", n, <<A, B>>)
  ELSE sortError("Unknown combination", n, <<A, B>>)

comparator(st, A, B) == SwitchOnN(SignalWord(st, A, B), A, B)

-----------------------------------------------------------------------------
(* Array.prototype.sort is left to the engine the program runs on. Two      *)
(* engines are told apart. V8 before 7.0 (node 10 and earlier): QuickSort   *)
(* with the median of three as pivot, InsertionSort on a range of at most   *)
(* ten elements, the comparator called on (earlier, later). V8 from 7.0 on  *)
(* (node 11 and later): the runs of ArrayTimSortImpl, counted, extended by  *)
(* binary insertion to the minimum run length (the whole array when it is   *)
(* shorter than 64) and merged, the comparator called on (later, earlier).  *)
(* A comparator that throws ends the sort. Arrays are indexed from 0, as in *)
(* the engines.                                                             *)

\* a call whose exception is not caught: the error thrown by x goes up, a
\* value returned by x goes on into Rest
Try(x, Rest(_)) == IF x.t = "throw" THEN x ELSE Rest(x)

\* a value that cannot be an exception goes on into Rest
Then(x, Rest(_)) == Rest(x)

\* a loop: Step is taken from the loop state s (t = "loop") until it gives a
\* value returned or an exception; Iterate takes at most 2^k steps
RECURSIVE Iterate(_, _, _)
Iterate(Step(_), s, k) ==
  IF s.t # "loop" THEN s
  ELSE IF k = 0 THEN Step(s)
  ELSE Iterate(Step, Iterate(Step, s, k - 1), k - 1)

RECURSIVE While(_, _, _)
While(Step(_), s, k) ==
  IF s.t # "loop" THEN s ELSE While(Step, Iterate(Step, s, k), k + 1)

Loop(Step(_), s) == While(Step, s, 0)

Min(a, b) == IF a < b THEN a ELSE b
Max(a, b) == IF a > b THEN a ELSE b

ElemAt(a, i) == a[i + 1]

SetAt(a, i, v) == [a EXCEPT ![i + 1] = v]

\* length elements of source from srcPos on written to target from dstPos
\* on; the two may be one array and the ranges may overlap
Copy(source, srcPos, target, dstPos, length) ==
  [k \in 1..Len(target) |->
     IF k - 1 >= dstPos /\ k - 1 < dstPos + length THEN source[k - dstPos + srcPos]
     ELSE target[k]]

Sorted(a) == [t |-> "return", arr |-> a]

\* the comparator closure called on two entries [id, val]
CallCompare(st, x, y) == comparator(st, x.id, y.id)

(* V8 before 7.0 *)

\* the inner loop of InsertionSort: element is moved down past every a[j]
\* that the comparator puts after it
RECURSIVE InsertionPlace(_, _, _, _, _)
InsertionPlace(st, a, element, j, from) ==
  IF j < from THEN Sorted(SetAt(a, j + 1, element))
  ELSE Try(CallCompare(st, ElemAt(a, j), element), LAMBDA order :
         IF order.v > 0
           THEN InsertionPlace(st, SetAt(a, j + 1, ElemAt(a, j)), element, j - 1, from)
           ELSE Sorted(SetAt(a, j + 1, element)))

\* InsertionSort(a, from, to) with its loop at i
RECURSIVE InsertionSort(_, _, _, _, _)
InsertionSort(st, a, from, i, to) ==
  IF i >= to THEN Sorted(a)
  ELSE Try(InsertionPlace(st, a, ElemAt(a, i), i - 1, from), LAMBDA placed :
         InsertionSort(st, placed.arr, from, i + 1, to))

\* the first, last and middle element in the order the comparator gives
\* them: v0 goes to the front, v2 to the back, v1 is the pivot
MedianOfThree(st, v0, v1, v2) ==
  Try(CallCompare(st, v0, v1), LAMBDA c01 :
    Then(IF c01.v > 0 THEN <<v1, v0>> ELSE <<v0, v1>>, LAMBDA w :
      Try(CallCompare(st, w[1], v2), LAMBDA c02 :
        IF c02.v >= 0
          THEN [t |-> "return", v0 |-> v2, v1 |-> w[1], v2 |-> w[2]]
          ELSE Try(CallCompare(st, w[2], v2), LAMBDA c12 :
                 IF c12.v > 0
                   THEN [t |-> "return", v0 |-> w[1], v1 |-> v2, v2 |-> w[2]]
                   ELSE [t |-> "return", v0 |-> w[1], v1 |-> w[2], v2 |-> v2]))))

\* the do-while of the partition: high_start goes down to an element the
\* comparator does not put after the pivot, or to i
PartitionTopStep(st, a, pivot, i, s) ==
  IF s.high_start - 1 = i
    THEN [t |-> "return", met |-> TRUE, high_start |-> i, order |-> 0]
    ELSE Try(CallCompare(st, ElemAt(a, s.high_start - 1), pivot), LAMBDA order :
           IF order.v > 0 THEN [s EXCEPT !.high_start = @ - 1]
           ELSE [t |-> "return", met |-> FALSE, high_start |-> s.high_start - 1,
                 order |-> order.v])

PartitionTop(st, a, pivot, high_start, i) ==
  Loop(LAMBDA s : PartitionTopStep(st, a, pivot, i, s),
       [t |-> "loop", high_start |-> high_start])

\* the partition loop of QuickSort, p holding a, low_end, high_start and i
PartitionStep(st, pivot, p) ==
  IF p.i >= p.high_start
    THEN [t |-> "return", arr |-> p.arr, low_end |-> p.low_end,
          high_start |-> p.high_start]
    ELSE Try(CallCompare(st, ElemAt(p.arr, p.i), pivot), LAMBDA order :
      IF order.v < 0
        THEN [p EXCEPT !.arr = SetAt(SetAt(@, p.i, ElemAt(@, p.low_end)),
                                     p.low_end, ElemAt(@, p.i)),
                       !.low_end = @ + 1, !.i = @ + 1]
      ELSE IF order.v > 0
        THEN Try(PartitionTop(st, p.arr, pivot, p.high_start, p.i), LAMBDA top :
          IF top.met
            THEN [t |-> "return", arr |-> p.arr, low_end |-> p.low_end,
                  high_start |-> p.i]
          ELSE IF top.order < 0
            THEN [p EXCEPT !.arr = SetAt(SetAt(SetAt(@, p.i, ElemAt(@, p.low_end)),
                                               top.high_start, ElemAt(@, p.i)),
                                         p.low_end, ElemAt(@, top.high_start)),
                           !.low_end = @ + 1, !.high_start = top.high_start,
                           !.i = @ + 1]
          ELSE [p EXCEPT !.arr = SetAt(SetAt(@, p.i, ElemAt(@, top.high_start)),
                                       top.high_start, ElemAt(@, p.i)),
                         !.high_start = top.high_start, !.i = @ + 1])
      ELSE [p EXCEPT !.i = @ + 1])

Partition(st, a, pivot, low_end, high_start, i) ==
  Loop(LAMBDA p : PartitionStep(st, pivot, p),
       [t |-> "loop", arr |-> a, low_end |-> low_end, high_start |-> high_start,
        i |-> i])

\* the candidates [i, a[i]] of GetThirdIndex, kept as entries [id, val |-> i]
RECURSIVE ThirdCandidates(_, _, _, _)
ThirdCandidates(a, i, to, increment) ==
  IF i >= to THEN <<>>
  ELSE <<[id |-> ElemAt(a, i).id, val |-> i]>>
         \o ThirdCandidates(a, i + increment, to, increment)

RECURSIVE QuickSort(_, _, _, _)

\* the pivot candidate of a range of more than 1000 elements
GetThirdIndex(st, a, from, to) ==
  Then(ThirdCandidates(a, from + 1, to - 1, 200 + ((to - from) % 16)), LAMBDA t_array :
    Try(QuickSort(st, t_array, 0, Len(t_array)), LAMBDA sorted :
      Number(ElemAt(sorted.arr, Len(t_array) \div 2).val)))

\* a[from] = v0, a[to - 1] = v2, and the pivot v1 put at low_end in exchange
\* for the element there
PivotPlaced(a, from, to, third_index, m) ==
  Then(SetAt(SetAt(a, from, m.v0), to - 1, m.v2), LAMBDA b :
    SetAt(SetAt(b, third_index, ElemAt(b, from + 1)), from + 1, m.v1))

\* one turn of the loop of QuickSort on the range q.from .. q.to - 1: the
\* smaller side of the partition is sorted by a call, the loop goes on with
\* the other side
QuickSortStep(st, q) ==
  IF q.to - q.from <= 10 THEN InsertionSort(st, q.arr, q.from, q.from + 1, q.to)
  ELSE
    Try(IF q.to - q.from > 1000 THEN GetThirdIndex(st, q.arr, q.from, q.to)
                                ELSE Number(q.from + ((q.to - q.from) \div 2)),
        LAMBDA third_index :
    Try(MedianOfThree(st, ElemAt(q.arr, q.from), ElemAt(q.arr, q.to - 1),
                      ElemAt(q.arr, third_index.v)), LAMBDA m :
    Try(Partition(st, PivotPlaced(q.arr, q.from, q.to, third_index.v, m), m.v1,
                  q.from + 1, q.to - 1, q.from + 2), LAMBDA p :
      IF q.to - p.high_start < p.low_end - q.from
        THEN Try(QuickSort(st, p.arr, p.high_start, q.to), LAMBDA s :
               [t |-> "loop", arr |-> s.arr, from |-> q.from, to |-> p.low_end])
        ELSE Try(QuickSort(st, p.arr, q.from, p.low_end), LAMBDA s :
               [t |-> "loop", arr |-> s.arr, from |-> p.high_start, to |-> q.to]))))

QuickSort(st, a, from, to) ==
  Loop(LAMBDA q : QuickSortStep(st, q),
       [t |-> "loop", arr |-> a, from |-> from, to |-> to])

(* V8 from 7.0 on *)

RECURSIVE ComputeMinRunLength(_, _)
ComputeMinRunLength(n, r) ==
  IF n >= 64 THEN ComputeMinRunLength(n \div 2, IF n % 2 = 1 THEN 1 ELSE r)
  ELSE n + r

\* where the run that holds arr[idx - 1] ends, idx being the next element
RunScanStep(st, arr, high, desc, s) ==
  IF s.idx >= high THEN Number(s.idx)
  ELSE Try(CallCompare(st, ElemAt(arr, s.idx), ElemAt(arr, s.idx - 1)), LAMBDA order :
         IF (desc /\ order.v >= 0) \/ (~desc /\ order.v < 0) THEN Number(s.idx)
         ELSE [s EXCEPT !.idx = @ + 1])

RunScan(st, arr, idx, high, desc) ==
  Loop(LAMBDA s : RunScanStep(st, arr, high, desc, s), [t |-> "loop", idx |-> idx])

ReverseRange(arr, from, to) ==
  [k \in 1..Len(arr) |-> IF k - 1 >= from /\ k - 1 < to THEN arr[from + to - k + 1]
                         ELSE arr[k]]

\* the run that starts at lowArg: its length, and the array with the run
\* reversed when it was strictly descending
CountAndMakeRun(st, arr, lowArg, high) ==
  IF lowArg + 1 = high THEN [t |-> "return", len |-> 1, arr |-> arr]
  ELSE Try(CallCompare(st, ElemAt(arr, lowArg + 1), ElemAt(arr, lowArg)), LAMBDA order :
         Try(RunScan(st, arr, lowArg + 2, high, order.v < 0), LAMBDA end :
           [t |-> "return", len |-> end.v - lowArg,
            arr |-> IF order.v < 0 THEN ReverseRange(arr, lowArg, end.v) ELSE arr]))

\* where the pivot belongs in arr[left .. right - 1]
RECURSIVE FindInsertionPoint(_, _, _, _, _)
FindInsertionPoint(st, arr, pivot, left, right) ==
  IF left >= right THEN Number(left)
  ELSE Then(left + ((right - left) \div 2), LAMBDA mid :
         Try(CallCompare(st, pivot, ElemAt(arr, mid)), LAMBDA order :
           IF order.v < 0 THEN FindInsertionPoint(st, arr, pivot, left, mid)
           ELSE FindInsertionPoint(st, arr, pivot, mid + 1, right)))

\* arr[low .. start - 1] is sorted; the element at s.start is put in
BinaryInsertionStep(st, low, high, s) ==
  IF s.start >= high THEN Sorted(s.arr)
  ELSE Try(FindInsertionPoint(st, s.arr, ElemAt(s.arr, s.start), low, s.start),
           LAMBDA left :
         [s EXCEPT !.arr = SetAt(Copy(@, left.v, @, left.v + 1, s.start - left.v),
                                 left.v, ElemAt(@, s.start)),
                   !.start = @ + 1])

BinaryInsertionSort(st, arr, low, startArg, high) ==
  Loop(LAMBDA s : BinaryInsertionStep(st, low, high, s),
       [t |-> "loop", arr |-> arr,
        start |-> IF low = startArg THEN startArg + 1 ELSE startArg])

\* the two loops of GallopLeft that double the offset, and its binary search
RECURSIVE GallopLeftUp(_, _, _, _, _, _, _)
GallopLeftUp(st, array, key, at, lastOfs, offset, maxOfs) ==
  IF offset >= maxOfs THEN [t |-> "return", lastOfs |-> lastOfs, offset |-> offset]
  ELSE Try(CallCompare(st, ElemAt(array, at + offset), key), LAMBDA order :
         IF order.v >= 0 THEN [t |-> "return", lastOfs |-> lastOfs, offset |-> offset]
         ELSE GallopLeftUp(st, array, key, at, offset, 2 * offset + 1, maxOfs))

RECURSIVE GallopLeftDown(_, _, _, _, _, _, _)
GallopLeftDown(st, array, key, at, lastOfs, offset, maxOfs) ==
  IF offset >= maxOfs THEN [t |-> "return", lastOfs |-> lastOfs, offset |-> offset]
  ELSE Try(CallCompare(st, ElemAt(array, at - offset), key), LAMBDA order :
         IF order.v < 0 THEN [t |-> "return", lastOfs |-> lastOfs, offset |-> offset]
         ELSE GallopLeftDown(st, array, key, at, offset, 2 * offset + 1, maxOfs))

RECURSIVE GallopLeftSearch(_, _, _, _, _, _)
GallopLeftSearch(st, array, key, base, lastOfs, offset) ==
  IF lastOfs >= offset THEN Number(offset)
  ELSE Then(lastOfs + ((offset - lastOfs) \div 2), LAMBDA m :
         Try(CallCompare(st, ElemAt(array, base + m), key), LAMBDA order :
           IF order.v < 0 THEN GallopLeftSearch(st, array, key, base, m + 1, offset)
           ELSE GallopLeftSearch(st, array, key, base, lastOfs, m)))

\* the leftmost place of key in the sorted array[base .. base + length - 1]
GallopLeft(st, array, key, base, length, hint) ==
  Try(CallCompare(st, ElemAt(array, base + hint), key), LAMBDA order :
    IF order.v < 0
      THEN Try(GallopLeftUp(st, array, key, base + hint, 0, 1, length - hint), LAMBDA g :
             GallopLeftSearch(st, array, key, base, g.lastOfs + hint + 1,
                              Min(g.offset, length - hint) + hint))
      ELSE Try(GallopLeftDown(st, array, key, base + hint, 0, 1, hint + 1), LAMBDA g :
             GallopLeftSearch(st, array, key, base, hint - Min(g.offset, hint + 1) + 1,
                              hint - g.lastOfs)))

RECURSIVE GallopRightDown(_, _, _, _, _, _, _)
GallopRightDown(st, array, key, at, lastOfs, offset, maxOfs) ==
  IF offset >= maxOfs THEN [t |-> "return", lastOfs |-> lastOfs, offset |-> offset]
  ELSE Try(CallCompare(st, key, ElemAt(array, at - offset)), LAMBDA order :
         IF order.v >= 0 THEN [t |-> "return", lastOfs |-> lastOfs, offset |-> offset]
         ELSE GallopRightDown(st, array, key, at, offset, 2 * offset + 1, maxOfs))

RECURSIVE GallopRightUp(_, _, _, _, _, _, _)
GallopRightUp(st, array, key, at, lastOfs, offset, maxOfs) ==
  IF offset >= maxOfs THEN [t |-> "return", lastOfs |-> lastOfs, offset |-> offset]
  ELSE Try(CallCompare(st, key, ElemAt(array, at + offset)), LAMBDA order :
         IF order.v < 0 THEN [t |-> "return", lastOfs |-> lastOfs, offset |-> offset]
         ELSE GallopRightUp(st, array, key, at, offset, 2 * offset + 1, maxOfs))

RECURSIVE GallopRightSearch(_, _, _, _, _, _)
GallopRightSearch(st, array, key, base, lastOfs, offset) ==
  IF lastOfs >= offset THEN Number(offset)
  ELSE Then(lastOfs + ((offset - lastOfs) \div 2), LAMBDA m :
         Try(CallCompare(st, key, ElemAt(array, base + m)), LAMBDA order :
           IF order.v < 0 THEN GallopRightSearch(st, array, key, base, lastOfs, m)
           ELSE GallopRightSearch(st, array, key, base, m + 1, offset)))

\* the rightmost place of key in the sorted array[base .. base + length - 1]
GallopRight(st, array, key, base, length, hint) ==
  Try(CallCompare(st, key, ElemAt(array, base + hint)), LAMBDA order :
    IF order.v < 0
      THEN Try(GallopRightDown(st, array, key, base + hint, 0, 1, hint + 1), LAMBDA g :
             GallopRightSearch(st, array, key, base, hint - Min(g.offset, hint + 1) + 1,
                               hint - g.lastOfs))
      ELSE Try(GallopRightUp(st, array, key, base + hint, 0, 1, length - hint), LAMBDA g :
             GallopRightSearch(st, array, key, base, g.lastOfs + hint + 1,
                               Min(g.offset, length - hint) + hint)))

\* a run wins kMinGallopWins times in a row: the merge gallops
kMinGallopWins == 7

\* a merge under way is a record: the work array, the temp array, dest and
\* the two cursors, the lengths left of runs A and B, minGallop and the value
\* of it kept in the sort state (saved), and the wins in a row
Merged(m) == [t |-> "return", arr |-> m.workArray, minGallop |-> m.saved]

\* workArray[dest++] = workArray[cursorB++], --lengthB
MergeLowTakeB(m) ==
  [m EXCEPT !.workArray = SetAt(@, m.dest, ElemAt(m.workArray, m.cursor)),
            !.dest = @ + 1, !.cursor = @ + 1, !.lengthB = @ - 1]

\* workArray[dest++] = tempArray[cursorTemp++], --lengthA
MergeLowTakeTemp(m) ==
  [m EXCEPT !.workArray = SetAt(@, m.dest, ElemAt(m.tempArray, m.cursorTemp)),
            !.dest = @ + 1, !.cursorTemp = @ + 1, !.lengthA = @ - 1]

\* label Succeed of MergeLow
MergeLowSucceed(m) ==
  Merged(IF m.lengthA > 0
           THEN [m EXCEPT !.workArray =
                            Copy(m.tempArray, m.cursorTemp, @, m.dest, m.lengthA)]
           ELSE m)

\* label CopyB of MergeLow: the last element of run A goes to the end
MergeLowCopyB(m) ==
  Merged([m EXCEPT !.workArray =
            SetAt(Copy(@, m.cursor, @, m.dest, m.lengthB), m.dest + m.lengthB,
                  ElemAt(m.tempArray, m.cursorTemp))])

\* the loop of MergeLow that takes one element at a time
MergeLowOneByOne(st, m) ==
  Try(CallCompare(st, ElemAt(m.workArray, m.cursor), ElemAt(m.tempArray, m.cursorTemp)),
      LAMBDA order :
    IF order.v < 0
      THEN Then([MergeLowTakeB(m) EXCEPT !.nofWinsB = @ + 1, !.nofWinsA = 0], LAMBDA n :
             IF n.lengthB = 0 THEN MergeLowSucceed(n)
             ELSE IF n.nofWinsB >= n.minGallop
               THEN [n EXCEPT !.minGallop = @ + 1, !.galloping = TRUE,
                              !.firstIteration = TRUE]
             ELSE n)
      ELSE Then([MergeLowTakeTemp(m) EXCEPT !.nofWinsA = @ + 1, !.nofWinsB = 0], LAMBDA n :
             IF n.lengthA = 1 THEN MergeLowCopyB(n)
             ELSE IF n.nofWinsA >= n.minGallop
               THEN [n EXCEPT !.minGallop = @ + 1, !.galloping = TRUE,
                              !.firstIteration = TRUE]
             ELSE n))

\* the loop of MergeLow that gallops
MergeLowGallop(st, m) ==
  IF ~(m.nofWinsA >= kMinGallopWins \/ m.nofWinsB >= kMinGallopWins \/ m.firstIteration)
    THEN [m EXCEPT !.minGallop = @ + 1, !.saved = m.minGallop + 1,
                   !.nofWinsA = 0, !.nofWinsB = 0, !.galloping = FALSE]
  ELSE
    Then([m EXCEPT !.minGallop = Max(1, @ - 1), !.saved = Max(1, m.minGallop - 1),
                   !.firstIteration = FALSE], LAMBDA m1 :
    Try(GallopRight(st, m1.tempArray, ElemAt(m1.workArray, m1.cursor), m1.cursorTemp,
                    m1.lengthA, 0), LAMBDA a :
    Then([m1 EXCEPT !.nofWinsA = a.v,
                    !.workArray = Copy(m1.tempArray, m1.cursorTemp, @, m1.dest, a.v),
                    !.dest = @ + a.v, !.cursorTemp = @ + a.v, !.lengthA = @ - a.v],
         LAMBDA m2 :
    IF a.v > 0 /\ m2.lengthA = 1 THEN MergeLowCopyB(m2)
    ELSE IF a.v > 0 /\ m2.lengthA = 0 THEN MergeLowSucceed(m2)
    ELSE
    Then(MergeLowTakeB(m2), LAMBDA m3 :
    IF m3.lengthB = 0 THEN MergeLowSucceed(m3)
    ELSE
    Try(GallopLeft(st, m3.workArray, ElemAt(m3.tempArray, m3.cursorTemp), m3.cursor,
                   m3.lengthB, 0), LAMBDA b :
    Then([m3 EXCEPT !.nofWinsB = b.v,
                    !.workArray = Copy(@, m3.cursor, @, m3.dest, b.v),
                    !.dest = @ + b.v, !.cursor = @ + b.v, !.lengthB = @ - b.v],
         LAMBDA m4 :
    IF b.v > 0 /\ m4.lengthB = 0 THEN MergeLowSucceed(m4)
    ELSE
    Then(MergeLowTakeTemp(m4), LAMBDA m5 :
    IF m5.lengthA = 1 THEN MergeLowCopyB(m5) ELSE m5)))))))

\* run A is copied to the temp array and merged with run B from the left
MergeLow(st, workArray, minGallop, baseA, lengthA, baseB, lengthB) ==
  Then(MergeLowTakeB(
         [workArray |-> workArray,
          tempArray |-> [k \in 1..lengthA |-> workArray[baseA + k]],
          dest |-> baseA, cursorTemp |-> 0, cursor |-> baseB,
          lengthA |-> lengthA, lengthB |-> lengthB,
          minGallop |-> minGallop, saved |-> minGallop,
          nofWinsA |-> 0, nofWinsB |-> 0,
          t |-> "loop", galloping |-> FALSE, firstIteration |-> FALSE]), LAMBDA m :
    IF m.lengthB = 0 THEN MergeLowSucceed(m)
    ELSE IF m.lengthA = 1 THEN MergeLowCopyB(m)
    ELSE Loop(LAMBDA n : IF n.galloping THEN MergeLowGallop(st, n)
                                        ELSE MergeLowOneByOne(st, n), m))

\* workArray[dest--] = workArray[cursorA--], --lengthA
MergeHighTakeA(m) ==
  [m EXCEPT !.workArray = SetAt(@, m.dest, ElemAt(m.workArray, m.cursor)),
            !.dest = @ - 1, !.cursor = @ - 1, !.lengthA = @ - 1]

\* workArray[dest--] = tempArray[cursorTemp--], --lengthB
MergeHighTakeTemp(m) ==
  [m EXCEPT !.workArray = SetAt(@, m.dest, ElemAt(m.tempArray, m.cursorTemp)),
            !.dest = @ - 1, !.cursorTemp = @ - 1, !.lengthB = @ - 1]

\* label Succeed of MergeHigh
MergeHighSucceed(m) ==
  Merged(IF m.lengthB > 0
           THEN [m EXCEPT !.workArray =
                            Copy(m.tempArray, 0, @, m.dest - (m.lengthB - 1), m.lengthB)]
           ELSE m)

\* label CopyA of MergeHigh: the first element of run B goes to the front
MergeHighCopyA(m) ==
  Merged([m EXCEPT !.workArray =
            SetAt(Copy(@, m.cursor - m.lengthA + 1, @, m.dest - m.lengthA + 1, m.lengthA),
                  m.dest - m.lengthA, ElemAt(m.tempArray, m.cursorTemp))])

\* the loop of MergeHigh that takes one element at a time
MergeHighOneByOne(st, m) ==
  Try(CallCompare(st, ElemAt(m.tempArray, m.cursorTemp), ElemAt(m.workArray, m.cursor)),
      LAMBDA order :
    IF order.v < 0
      THEN Then([MergeHighTakeA(m) EXCEPT !.nofWinsA = @ + 1, !.nofWinsB = 0], LAMBDA n :
             IF n.lengthA = 0 THEN MergeHighSucceed(n)
             ELSE IF n.nofWinsA >= n.minGallop
               THEN [n EXCEPT !.minGallop = @ + 1, !.galloping = TRUE,
                              !.firstIteration = TRUE]
             ELSE n)
      ELSE Then([MergeHighTakeTemp(m) EXCEPT !.nofWinsB = @ + 1, !.nofWinsA = 0], LAMBDA n :
             IF n.lengthB = 1 THEN MergeHighCopyA(n)
             ELSE IF n.nofWinsB >= n.minGallop
               THEN [n EXCEPT !.minGallop = @ + 1, !.galloping = TRUE,
                              !.firstIteration = TRUE]
             ELSE n))

\* the loop of MergeHigh that gallops
MergeHighGallop(st, m) ==
  IF ~(m.nofWinsA >= kMinGallopWins \/ m.nofWinsB >= kMinGallopWins \/ m.firstIteration)
    THEN [m EXCEPT !.minGallop = @ + 1, !.saved = m.minGallop + 1,
                   !.nofWinsA = 0, !.nofWinsB = 0, !.galloping = FALSE]
  ELSE
    Then([m EXCEPT !.minGallop = Max(1, @ - 1), !.saved = Max(1, m.minGallop - 1),
                   !.firstIteration = FALSE], LAMBDA m1 :
    Try(GallopRight(st, m1.workArray, ElemAt(m1.tempArray, m1.cursorTemp), m1.baseA,
                    m1.lengthA, m1.lengthA - 1), LAMBDA k :
    Then(m1.lengthA - k.v, LAMBDA a :
    Then([m1 EXCEPT !.nofWinsA = a,
                    !.workArray = Copy(@, m1.cursor - a + 1, @, m1.dest - a + 1, a),
                    !.dest = @ - a, !.cursor = @ - a, !.lengthA = @ - a],
         LAMBDA m2 :
    IF a > 0 /\ m2.lengthA = 0 THEN MergeHighSucceed(m2)
    ELSE
    Then(MergeHighTakeTemp(m2), LAMBDA m3 :
    IF m3.lengthB = 1 THEN MergeHighCopyA(m3)
    ELSE
    Try(GallopLeft(st, m3.tempArray, ElemAt(m3.workArray, m3.cursor), 0, m3.lengthB,
                   m3.lengthB - 1), LAMBDA j :
    Then(m3.lengthB - j.v, LAMBDA b :
    Then([m3 EXCEPT !.nofWinsB = b,
                    !.workArray = Copy(m3.tempArray, m3.cursorTemp - b + 1, @,
                                       m3.dest - b + 1, b),
                    !.dest = @ - b, !.cursorTemp = @ - b, !.lengthB = @ - b],
         LAMBDA m4 :
    IF b > 0 /\ m4.lengthB = 1 THEN MergeHighCopyA(m4)
    ELSE IF b > 0 /\ m4.lengthB = 0 THEN MergeHighSucceed(m4)
    ELSE
    Then(MergeHighTakeA(m4), LAMBDA m5 :
    IF m5.lengthA = 0 THEN MergeHighSucceed(m5) ELSE m5)))))))))

\* run B is copied to the temp array and merged with run A from the right
MergeHigh(st, workArray, minGallop, baseA, lengthA, baseB, lengthB) ==
  Then(MergeHighTakeA(
         [workArray |-> workArray,
          tempArray |-> [k \in 1..lengthB |-> workArray[baseB + k]],
          dest |-> baseB + lengthB - 1, cursorTemp |-> lengthB - 1,
          cursor |-> baseA + lengthA - 1, baseA |-> baseA,
          lengthA |-> lengthA, lengthB |-> lengthB,
          minGallop |-> minGallop, saved |-> minGallop,
          nofWinsA |-> 0, nofWinsB |-> 0,
          t |-> "loop", galloping |-> FALSE, firstIteration |-> FALSE]), LAMBDA m :
    IF m.lengthA = 0 THEN MergeHighSucceed(m)
    ELSE IF m.lengthB = 1 THEN MergeHighCopyA(m)
    ELSE Loop(LAMBDA n : IF n.galloping THEN MergeHighGallop(st, n)
                                        ELSE MergeHighOneByOne(st, n), m))

\* the sort state: the work array, the pending runs [base, len] and minGallop
SortState(arr, runs, minGallop) ==
  [t |-> "return", arr |-> arr, runs |-> runs, minGallop |-> minGallop]

\* the pending runs i and i + 1 merged into one
MergeAt(st, s, i) ==
  Then([a |-> s.runs[i + 1], b |-> s.runs[i + 2],
        runs |-> SubSeq(s.runs, 1, i)
                   \o <<[base |-> s.runs[i + 1].base,
                         len |-> s.runs[i + 1].len + s.runs[i + 2].len]>>
                   \o SubSeq(s.runs, i + 3, Len(s.runs))], LAMBDA r :
    Try(GallopRight(st, s.arr, ElemAt(s.arr, r.b.base), r.a.base, r.a.len, 0), LAMBDA k :
      IF r.a.len - k.v = 0 THEN SortState(s.arr, r.runs, s.minGallop)
      ELSE
      Try(GallopLeft(st, s.arr, ElemAt(s.arr, r.a.base + r.a.len - 1), r.b.base, r.b.len,
                     r.b.len - 1), LAMBDA lengthB :
        IF lengthB.v = 0 THEN SortState(s.arr, r.runs, s.minGallop)
        ELSE
        Try(IF r.a.len - k.v <= lengthB.v
              THEN MergeLow(st, s.arr, s.minGallop, r.a.base + k.v, r.a.len - k.v,
                            r.b.base, lengthB.v)
              ELSE MergeHigh(st, s.arr, s.minGallop, r.a.base + k.v, r.a.len - k.v,
                             r.b.base, lengthB.v), LAMBDA m :
          SortState(m.arr, r.runs, m.minGallop)))))

PendingRunLength(runs, n) == runs[n + 1].len

RunInvariantEstablished(runs, n) ==
  IF n < 2 THEN TRUE
  ELSE PendingRunLength(runs, n - 2)
         > PendingRunLength(runs, n - 1) + PendingRunLength(runs, n)

RECURSIVE MergeCollapse(_, _)
MergeCollapse(st, s) ==
  IF Len(s.runs) <= 1 THEN s
  ELSE Then(Len(s.runs) - 2, LAMBDA n :
    IF ~RunInvariantEstablished(s.runs, n + 1) \/ ~RunInvariantEstablished(s.runs, n)
      THEN Try(MergeAt(st, s, IF PendingRunLength(s.runs, n - 1)
                                    < PendingRunLength(s.runs, n + 1)
                                THEN n - 1 ELSE n), LAMBDA m : MergeCollapse(st, m))
    ELSE IF PendingRunLength(s.runs, n) <= PendingRunLength(s.runs, n + 1)
      THEN Try(MergeAt(st, s, n), LAMBDA m : MergeCollapse(st, m))
    ELSE s)

RECURSIVE MergeForceCollapse(_, _)
MergeForceCollapse(st, s) ==
  IF Len(s.runs) <= 1 THEN s
  ELSE Then(Len(s.runs) - 2, LAMBDA n :
    Try(MergeAt(st, s, IF n > 0 /\ PendingRunLength(s.runs, n - 1)
                                      < PendingRunLength(s.runs, n + 1)
                         THEN n - 1 ELSE n), LAMBDA m : MergeForceCollapse(st, m)))

\* one turn of the loop of ArrayTimSortImpl: the next run is counted,
\* extended to the minimum run length, pushed and merged with the runs pending
TimSortStep(st, minRunLength, s) ==
  IF s.remaining = 0
    THEN MergeForceCollapse(st, SortState(s.arr, s.runs, s.minGallop))
  ELSE
    Try(CountAndMakeRun(st, s.arr, s.low, s.low + s.remaining), LAMBDA run :
    Then(IF run.len < minRunLength THEN Min(minRunLength, s.remaining) ELSE run.len,
         LAMBDA currentRunLength :
    Try(IF run.len < minRunLength
          THEN BinaryInsertionSort(st, run.arr, s.low, s.low + run.len,
                                   s.low + currentRunLength)
          ELSE Sorted(run.arr), LAMBDA made :
    Try(MergeCollapse(st, SortState(made.arr,
                                    Append(s.runs,
                                           [base |-> s.low, len |-> currentRunLength]),
                                    s.minGallop)), LAMBDA merged :
      [t |-> "loop", arr |-> merged.arr, runs |-> merged.runs,
       minGallop |-> merged.minGallop, low |-> s.low + currentRunLength,
       remaining |-> s.remaining - currentRunLength]))))

ArrayTimSortImpl(st, arr) ==
  Try(Loop(LAMBDA s : TimSortStep(st, ComputeMinRunLength(Len(arr), 0), s),
           [t |-> "loop", arr |-> arr, runs |-> <<>>, minGallop |-> kMinGallopWins,
            low |-> 0, remaining |-> Len(arr)]), LAMBDA s : Sorted(s.arr))

\* a sort that calls the comparator on an array of one element too, the
\* element compared with itself
ArraySortComparingAlone(st, arr) ==
  IF Len(arr) = 0 THEN Sorted(arr)
  ELSE IF Len(arr) = 1 THEN Try(CallCompare(st, arr[1], arr[1]), LAMBDA order : Sorted(arr))
  ELSE IF engine = "QuickSort" THEN QuickSort(st, arr, 0, Len(arr))
  ELSE ArrayTimSortImpl(st, arr)

\* the engines the program runs on, told apart by their Array.prototype.sort:
\* QuickSort (V8 before 7.0) or TimSort (V8 from 7.0 on)
Engines == {"QuickSort", "TimSort"}

\* array.sort(comparator), as the engine of the program runs it
ArraySort(st, arr) ==
  IF Len(arr) < 2 THEN Sorted(arr)
  ELSE IF engine = "QuickSort" THEN QuickSort(st, arr, 0, Len(arr))
  ELSE ArrayTimSortImpl(st, arr)

\* applySortAndMap: the entries sorted, mapped to their values
applySortAndMap(st, entries) ==
  Try(ArraySort(st, entries), LAMBDA sorted :
    [t |-> "return", ids |-> [i \in 1..Len(entries) |-> sorted.arr[i].id],
     v |-> [i \in 1..Len(entries) |-> sorted.arr[i].val]])

-----------------------------------------------------------------------------
(* Fragments: documents, and objects on a heap *)

\* the source of a type named after the number i: "type I7 { f: Int }"
ChainSource(i) == "type I" \o ToString(i) \o " { f: Int }"

\* gql(template): the sources graphql-tag parses; any other source, the empty
\* one included, is a syntax error
ValidSources == {"type A { a: Int }", "type B { b: Int }", "type C { c: Int }",
                 "type Query { q: Int }", "type Mutation { m: Int }"}
                \cup {ChainSource(i) : i \in 1..99}

Document(s) == [kind |-> "Document", source |-> s]

gql(s) ==
  IF s \in ValidSources THEN [t |-> "return", v |-> Document(s)]
  ELSE [t |-> "throw", error |-> "GraphQLError", kind |-> "Syntax Error", source |-> s]

\* an object is known by where its literal stood when it was created: the
\* kind and identifier it was registered under and the keys leading to it
Ref(kind, id) == [kind |-> kind, id |-> id, path |-> <<>>]
NoRef == [kind |-> "", id |-> "", path |-> <<>>]

\* a value held under a key: a leaf (number, function, class) or the
\* reference of an object
Leaf(x) == [t |-> "leaf", v |-> x, r |-> NoRef]
Obj(r) == [t |-> "obj", v |-> 0, r |-> r]
Undefined == [t |-> "undefined", v |-> 0, r |-> NoRef]

EmptyHeap == [r \in {} |-> 0]

EmptyObject == [k \in {} |-> Undefined]

\* a value written out as a tree: a leaf, or a mapping of keys to trees
Lit(x) == [t |-> "leaf", n |-> x, m |-> EmptyObject]
Map(m) == [t |-> "map", n |-> 0, m |-> m]
NoTree == [t |-> "undefined", n |-> 0, m |-> EmptyObject]

\* the order in which for-in visits the keys of an object
KeyOrder == <<"Query", "Mutation", "x", "y", "p">>

KeysInOrder(S) == SelectSeq(KeyOrder, LAMBDA k : k \in S)

Get(o, k) == IF k \in DOMAIN o THEN o[k] ELSE Undefined

Put(o, k, v) == [x \in (DOMAIN o) \cup {k} |-> IF x = k THEN v ELSE o[x]]

HeapPut(h, r, k, v) == [h EXCEPT ![r] = Put(h[r], k, v)]

\* the object literal { k: m[k], ... } created on the heap under the
\* reference r; gives the heap
RECURSIVE NewObject(_, _, _), NewObjectKeys(_, _, _, _, _)
NewObjectKeys(h, r, m, ks, o) ==
  IF ks = <<>> THEN h @@ (r :> o)
  ELSE LET k == Head(ks)
           sub == [r EXCEPT !.path = Append(@, k)]
       IN IF m[k].t = "leaf"
            THEN NewObjectKeys(h, r, m, Tail(ks), Put(o, k, Leaf(m[k].n)))
            ELSE NewObjectKeys(NewObject(h, sub, m[k].m), r, m, Tail(ks), Put(o, k, Obj(sub)))

NewObject(h, r, m) == NewObjectKeys(h, r, m, KeysInOrder(DOMAIN m), EmptyObject)

\* the content reachable from a value, as a tree
RECURSIVE Content(_, _)
Content(h, v) ==
  IF v.t = "obj" THEN Map([k \in DOMAIN h[v.r] |-> Content(h, h[v.r][k])])
  ELSE IF v.t = "leaf" THEN Lit(v.v)
  ELSE NoTree

-----------------------------------------------------------------------------
(* merge.recursive(target, ...sources) of the package "merge" *)

\* merge_recursive(base, extend): gives the heap and the value returned
RECURSIVE merge_recursive(_, _, _), merge_recursive_keys(_, _, _, _)
merge_recursive_keys(h, b, e, ks) ==
  IF ks = <<>> THEN [heap |-> h, v |-> Obj(b)]
  ELSE IF Get(h[b], Head(ks)).t = "obj" /\ Get(h[e], Head(ks)).t = "obj"
    THEN Then(merge_recursive(h, Get(h[b], Head(ks)), Get(h[e], Head(ks))), LAMBDA r :
           merge_recursive_keys(HeapPut(r.heap, b, Head(ks), r.v), b, e, Tail(ks)))
    ELSE merge_recursive_keys(HeapPut(h, b, Head(ks), Get(h[e], Head(ks))), b, e, Tail(ks))

merge_recursive(h, base, extend) ==
  IF base.t # "obj" THEN [heap |-> h, v |-> extend]
  ELSE IF extend.t # "obj" THEN [heap |-> h, v |-> base]
  ELSE merge_recursive_keys(h, base.r, extend.r, KeysInOrder(DOMAIN h[extend.r]))

\* the keys of one item merged into the result object
RECURSIVE merge_item(_, _, _, _)
merge_item(h, result, item, ks) ==
  IF ks = <<>> THEN [heap |-> h, result |-> result]
  ELSE Then(merge_recursive(h, Get(result, Head(ks)), h[item][Head(ks)]), LAMBDA r :
         merge_item(r.heap, Put(result, Head(ks), r.v), item, Tail(ks)))

\* merge(false, true, [{}, item1, ...]): result is the fresh first argument
RECURSIVE merge(_, _, _)
merge(h, result, items) ==
  IF items = <<>> THEN [heap |-> h, result |-> result]
  ELSE Then(merge_item(h, result, Head(items), KeysInOrder(DOMAIN h[Head(items)])),
            LAMBDA r : merge(r.heap, r.result, Tail(items)))

\* applySortAndMerge: the sorted fragments merged into a fresh {}; gives the
\* heap it leaves along with the merged object written out as a tree
applySortAndMerge(st, h, entries) ==
  Try(applySortAndMap(st, entries), LAMBDA sorted :
    Then(merge(h, EmptyObject, sorted.v), LAMBDA m :
      [t |-> "return", heap |-> m.heap, ids |-> sorted.ids,
       v |-> Map([k \in DOMAIN m.result |-> Content(m.heap, m.result[k])])]))

-----------------------------------------------------------------------------
(* The builder's methods *)

\* a method that returns `this`
This == [t |-> "return", op |-> "builder", v |-> "this"]

\* new Error(`Cannot import ${what} for id "${id}" multiple times.`)
DuplicateError(what, id) ==
  [t |-> "throw", op |-> "add", error |-> "Error", kind |-> "multiple times",
   what |-> what, id |-> id]

\* Map.prototype.set on a Map kept in insertion order
EntriesSet(entries, id, val) ==
  IF id \in Keys(entries)
    THEN [i \in DOMAIN entries |->
            IF entries[i].id = id THEN [id |-> id, val |-> val] ELSE entries[i]]
    ELSE Append(entries, [id |-> id, val |-> val])

\* definitions is a source string [t |-> "string", src |-> s] or the document
\* of a source, [t |-> "doc", src |-> s]
addDefinions(id, d) ==
  IF id \in Keys(definitions)
    THEN /\ ret' = DuplicateError("definitions", id)
         /\ UNCHANGED <<registry, rules, async, engine>>
    ELSE LET doc == IF d.t = "string" THEN gql(d.src)
                                        ELSE [t |-> "return", v |-> Document(d.src)] IN
         /\ importedIdentifiers' = importedIdentifiers \cup {id}
         /\ IF doc.t = "throw"
              THEN ret' = [op |-> "add"] @@ doc /\ UNCHANGED definitions
              ELSE ret' = This /\ definitions' = EntriesSet(definitions, id, doc.v)
         /\ UNCHANGED <<resolvers, directives, heap, rules, async, engine>>

\* addResolvers with the check of hasResolvers left out: the literal takes the
\* place of the fragment held under id
addResolversOverwriting(id, literal) ==
  /\ importedIdentifiers' = importedIdentifiers \cup {id}
  /\ heap' = NewObject([r \in {x \in DOMAIN heap : x.kind # "resolvers" \/ x.id # id}
                         |-> heap[r]],
                       Ref("resolvers", id), literal)
  /\ resolvers' = EntriesSet(resolvers, id, Ref("resolvers", id))
  /\ ret' = This
  /\ UNCHANGED <<definitions, directives, rules, async, engine>>

\* the argument is an object literal, created as the call is made
addResolvers(id, literal) ==
  IF id \in Keys(resolvers)
    THEN /\ ret' = DuplicateError("resolvers", id)
         /\ UNCHANGED <<registry, rules, async, engine>>
    ELSE /\ importedIdentifiers' = importedIdentifiers \cup {id}
         /\ heap' = NewObject(heap, Ref("resolvers", id), literal)
         /\ resolvers' = EntriesSet(resolvers, id, Ref("resolvers", id))
         /\ ret' = This
         /\ UNCHANGED <<definitions, directives, rules, async, engine>>

addDirectives(id, literal) ==
  IF id \in Keys(directives)
    THEN /\ ret' = DuplicateError("directives", id)
         /\ UNCHANGED <<registry, rules, async, engine>>
    ELSE /\ importedIdentifiers' = importedIdentifiers \cup {id}
         /\ heap' = NewObject(heap, Ref("directives", id), literal)
         /\ directives' = EntriesSet(directives, id, Ref("directives", id))
         /\ ret' = This
         /\ UNCHANGED <<definitions, resolvers, rules, async, engine>>

hasDefinitions(id) == id \in Keys(definitions)
hasResolvers(id) == id \in Keys(resolvers)
hasDirectives(id) == id \in Keys(directives)
has(id) == id \in importedIdentifiers

\* sortAfter adding ids to the set already declared for id
sortAfterAdding(id, ids) ==
  /\ sortAfterMap' = IF Len(ids) > 0
                       THEN MapSet(sortAfterMap, id,
                                   (IF MapHas(sortAfterMap, id) THEN sortAfterMap[id] ELSE {})
                                     \cup Range(ids))
                       ELSE sortAfterMap
  /\ ret' = This
  /\ UNCHANGED <<registry, sortBeforeMap, sortEndSet, sortStartSet, async, engine>>

\* ids is the rest parameter, a sequence
sortAfter(id, ids) ==
  /\ sortAfterMap' = IF Len(ids) > 0 THEN MapSet(sortAfterMap, id, Range(ids))
                                     ELSE sortAfterMap
  /\ ret' = This
  /\ UNCHANGED <<registry, sortBeforeMap, sortEndSet, sortStartSet, async, engine>>

sortBefore(id, ids) ==
  /\ sortBeforeMap' = IF Len(ids) > 0 THEN MapSet(sortBeforeMap, id, Range(ids))
                                      ELSE sortBeforeMap
  /\ ret' = This
  /\ UNCHANGED <<registry, sortAfterMap, sortEndSet, sortStartSet, async, engine>>

sortEnd(ids) ==
  /\ sortEndSet' = sortEndSet \cup Range(ids)
  /\ ret' = This
  /\ UNCHANGED <<registry, sortAfterMap, sortBeforeMap, sortStartSet, async, engine>>

sortStart(ids) ==
  /\ sortStartSet' = sortStartSet \cup Range(ids)
  /\ ret' = This
  /\ UNCHANGED <<registry, sortAfterMap, sortBeforeMap, sortEndSet, async, engine>>

NotMerged == [t |-> "return", ids |-> <<>>, v |-> NoTree]

\* a step of prepareSchema: the error thrown by x ends the call on the heap h,
\* a value returned by x goes on into Rest
Step(h, x, Rest(_)) == IF x.t = "throw" THEN [heap |-> h, ret |-> x] ELSE Rest(x)

\* what prepareSchema gives on a builder in the given state: the heap it
\* leaves and the value it returns or the error it throws; order is the
\* identifiers of each kind in the order their fragments were used
PrepareOutcome(st, h, defs, res, dirs) ==
  Step(h, IF Len(defs) > 0 THEN applySortAndMap(st, defs)
                           ELSE gql("") @@ [ids |-> <<>>],
    LAMBDA typeDefs :
  Step(h, IF Len(res) > 0 THEN applySortAndMerge(st, h, res)
                          ELSE [heap |-> h] @@ NotMerged,
    LAMBDA r :
  Step(r.heap, IF Len(dirs) > 0 THEN applySortAndMerge(st, r.heap, dirs)
                                ELSE [heap |-> r.heap] @@ NotMerged,
    LAMBDA d :
  [heap |-> d.heap,
   ret |-> [t |-> "return",
            v |-> [typeDefs |-> typeDefs.v, resolvers |-> r.v, schemaDirectives |-> d.v],
            order |-> [definitions |-> typeDefs.ids, resolvers |-> r.ids,
                       directives |-> d.ids]]])))

\* how many calls of prepareSchema are told apart when they follow each other
MaxRepeat == 2

\* the calls of prepareSchema made in a row, this one included
Repeat == IF ret.op = "prepareSchema" /\ ret.nth < MaxRepeat THEN ret.nth + 1
          ELSE IF ret.op = "prepareSchema" THEN MaxRepeat ELSE 1

prepareSchema ==
  /\ Then(PrepareOutcome(Store, heap, definitions, resolvers, directives), LAMBDA out :
       /\ heap' = out.heap
       /\ ret' = [op |-> "prepareSchema", nth |-> Repeat] @@ out.ret)
  /\ UNCHANGED <<definitions, resolvers, directives, importedIdentifiers, rules, async, engine>>

\* makeExecutableSchema(prepared) of graphql-tools: the schema made of what
\* prepareSchema returned, or the error it throws when the parts do not fit
makeExecutableSchema(prepared) ==
  {[t |-> "return", v |-> [kind |-> "GraphQLSchema", of |-> prepared]],
   [t |-> "throw", error |-> "Error", kind |-> "makeExecutableSchema"]}

\* buildSchema: prepareSchema is called, its error goes up, and what it
\* returns is handed to makeExecutableSchema; prepared is what the call of
\* prepareSchema gave
buildSchema ==
  /\ Then(PrepareOutcome(Store, heap, definitions, resolvers, directives), LAMBDA out :
       /\ heap' = out.heap
       /\ \E made \in (IF out.ret.t = "throw" THEN {out.ret}
                                               ELSE makeExecutableSchema(out.ret.v)) :
            ret' = [op |-> "buildSchema", prepared |-> out.ret] @@ made)
  /\ UNCHANGED <<definitions, resolvers, directives, importedIdentifiers, rules, async, engine>>

\* one call of the comparator closure on the pair (A, B)
compare(A, B) ==
  /\ ret' = [t |-> "return", op |-> "compare", A |-> A, B |-> B,
             v |-> comparator(Store, A, B)]
  /\ UNCHANGED <<registry, rules, async, engine>>

\* the importFile / importFrom calls that can be under way at once
Procs == {1, 2}

\* a call of importFile / importFrom: the await it stands at (pc), the file it
\* is importing (path), for importFrom the folder (dir), the allowed
\* extensions (exts), the entries still to look at (todo), the identifiers
\* pushed (imports) and what the importFile it awaits was settled with
\* (inner), and what its own promise is settled with (out)
NoCall == [op |-> "none", pc |-> "idle",
           path |-> [dir |-> "", base |-> "", ext |-> ""],
           dir |-> "", exts |-> <<>>, todo |-> <<>>, imports |-> <<>>,
           inner |-> [t |-> "pending"], out |-> [t |-> "pending"]]

Init ==
  /\ engine \in Engines
  /\ calls = [p \in Procs |-> NoCall]
  /\ loaded = {}
  /\ definitions = <<>>
  /\ resolvers = <<>>
  /\ directives = <<>>
  /\ heap = EmptyHeap
  /\ importedIdentifiers = {}
  /\ sortAfterMap = EmptyMap
  /\ sortBeforeMap = EmptyMap
  /\ sortEndSet = {}
  /\ sortStartSet = DefaultStart
  /\ ret = [t |-> "return", op |-> "new", v |-> "this"]

-----------------------------------------------------------------------------
(* Inputs *)

SourceOf == [A |-> "type A { a: Int }", B |-> "type B { b: Int }",
             C |-> "type C { c: Int }", Query |-> "type Query { q: Int }",
             Mutation |-> "type Mutation { m: Int }"]

\* a call of sortAfter / sortBefore that keeps the two maps within max entries
RuleRoom(m, id, max) ==
  \/ id \in DOMAIN m
  \/ Cardinality(DOMAIN sortAfterMap) + Cardinality(DOMAIN sortBeforeMap) < max

\* the identifiers marked start or end beyond the default start set
Marks == sortEndSet \cup (sortStartSet \ DefaultStart)

MarkRoom(S, id, max) == id \in S \/ Cardinality(Marks) < max

-----------------------------------------------------------------------------
(* SpecSort: the definitions of a builder sorted under rules and marks *)

SortIds == {"A", "B", "C", "Query"}
MaxSortRules == 2
MaxSortMarks == 1

NextSort ==
  \/ \E id \in SortIds : addDefinions(id, [t |-> "string", src |-> SourceOf[id]])
  \/ \E id \in SortIds : \E o \in SortIds \ {id} :
       RuleRoom(sortAfterMap, id, MaxSortRules) /\ sortAfter(id, <<o>>)
  \/ \E id \in SortIds : \E o \in SortIds \ {id} :
       RuleRoom(sortBeforeMap, id, MaxSortRules) /\ sortBefore(id, <<o>>)
  \/ \E id \in SortIds : MarkRoom(sortStartSet, id, MaxSortMarks) /\ sortStart(<<id>>)
  \/ \E id \in SortIds : MarkRoom(sortEndSet, id, MaxSortMarks) /\ sortEnd(<<id>>)
  \/ prepareSchema

SpecSort == Init /\ [][NextSort]_vars

-----------------------------------------------------------------------------
(* SpecLong: definitions registered one after the other, up to arrays long  *)
(* enough for every branch of the engine's sort, under marks and rules       *)

\* how many definitions are registered: beyond the ten entries up to which
\* V8 before 7.0 sorts by insertion, and the 64 from which V8 from 7.0 on
\* merges runs
MaxLong == 65
MaxLongMarks == 1
MaxLongRules == 1

\* the identifiers in the order they are registered: A, Query, Mutation, I4,
\* I5, ...
LongFirst == <<"A", "Query", "Mutation">>
LongId(i) == IF i <= Len(LongFirst) THEN LongFirst[i] ELSE "I" \o ToString(i)
LongSource(i) == IF i <= Len(LongFirst) THEN SourceOf[LongFirst[i]] ELSE ChainSource(i)

\* the identifiers marks and rules are declared on
LongMarkIds == {"A", "I6", "I64"}
LongRuleIds == {"A", "I6"}

NextLong ==
  \/ /\ Len(definitions) < MaxLong
     /\ addDefinions(LongId(Len(definitions) + 1),
                     [t |-> "string", src |-> LongSource(Len(definitions) + 1)])
  \/ \E id \in LongRuleIds : \E o \in LongRuleIds \ {id} :
       RuleRoom(sortAfterMap, id, MaxLongRules) /\ sortAfter(id, <<o>>)
  \/ \E id \in LongRuleIds : \E o \in LongRuleIds \ {id} :
       RuleRoom(sortBeforeMap, id, MaxLongRules) /\ sortBefore(id, <<o>>)
  \/ \E id \in LongMarkIds : MarkRoom(sortStartSet, id, MaxLongMarks) /\ sortStart(<<id>>)
  \/ \E id \in LongMarkIds : MarkRoom(sortEndSet, id, MaxLongMarks) /\ sortEnd(<<id>>)
  \/ prepareSchema

SpecLong == Init /\ [][NextLong]_vars

-----------------------------------------------------------------------------
(* Claims about the order prepareSchema gives *)

Prepared == ret.op = "prepareSchema"
PreparedOk == Prepared /\ ret.t = "return"

\* the rules declare that X comes after Y
MustFollow(st, X, Y) ==
  \/ MapHas(st.after, X) /\ Y \in st.after[X]
  \/ MapHas(st.before, Y) /\ X \in st.before[Y]

Pos(seq, x) == CHOOSE i \in DOMAIN seq : seq[i] = x

Ids(entries) == [i \in DOMAIN entries |-> entries[i].id]

\* the three kinds: the identifiers as registered, and as prepareSchema ordered them
KindsIn == <<Ids(definitions), Ids(resolvers), Ids(directives)>>
KindsOut == <<ret.order.definitions, ret.order.resolvers, ret.order.directives>>

\* C1 (as claimed): whenever prepareSchema succeeds, in each kind's output
\* every identifier declared to come after another one of that kind (by
\* sortAfter or by the other's sortBefore) stands at a higher position.
C1_OrderRespectsRules ==
  PreparedOk =>
    \A k \in 1..3 : \A X, Y \in Range(KindsOut[k]) :
      MustFollow(Store, X, Y) => Pos(KindsOut[k], Y) < Pos(KindsOut[k], X)

\* C2 (as claimed, any sort error that names A and B counted as the conflict):
\* with sortAfter(A, B) and sortAfter(B, A) declared and A and B both holding
\* a fragment of a kind, prepareSchema fails with an error whose identifiers
\* are A and B; it never returns an order.
C2_MutualAfterIsConflict ==
  Prepared =>
    \A k \in 1..3 : \A X, Y \in Range(KindsIn[k]) :
      ( /\ X # Y
        /\ MapHas(sortAfterMap, X) /\ Y \in sortAfterMap[X]
        /\ MapHas(sortAfterMap, Y) /\ X \in sortAfterMap[Y] )
      => /\ ret.t = "throw"
         /\ ret.error = "SortError"
         /\ Range(ret.identifiers) = {X, Y}

\* C3: whenever prepareSchema succeeds, in each kind's output every start
\* identifier precedes every identifier that is not start and every end
\* identifier follows every identifier that is not end; and with no rules,
\* definitions registered as A, Query, Mutation come out as Query, Mutation, A.
C3_StartFirstEndLast ==
  PreparedOk =>
    /\ \A k \in 1..3 : \A X, Y \in Range(KindsOut[k]) :
         /\ (X \in sortStartSet /\ Y \notin sortStartSet)
              => Pos(KindsOut[k], X) < Pos(KindsOut[k], Y)
         /\ (X \in sortEndSet /\ Y \notin sortEndSet)
              => Pos(KindsOut[k], Y) < Pos(KindsOut[k], X)
    /\ ( /\ Ids(definitions) = <<"A", "Query", "Mutation">>
         /\ sortAfterMap = EmptyMap /\ sortBeforeMap = EmptyMap
         /\ sortEndSet = {} /\ sortStartSet = DefaultStart )
       => ret.order.definitions = <<"Query", "Mutation", "A">>

\* C3 witness: 64 or more definitions were built by the engine that merges
\* runs; I64, marked start, came out behind Query and Mutation and before A
\* and the 60 registered between them and it
C3_Witness ==
  /\ PreparedOk
  /\ engine = "TimSort"
  /\ Len(definitions) >= 64
  /\ "I64" \in sortStartSet /\ sortEndSet = {}
  /\ SubSeq(ret.order.definitions, 1, 4) = <<"Query", "Mutation", "I64", "A">>

-----------------------------------------------------------------------------
(* SpecCmp: the rules declared in any order, and the comparator called on a pair *)

CmpIds == {"A", "B", "Query"}
MaxCmpRules == 2

\* the rest parameters given to sortAfter / sortBefore for id
CmpLists(id) ==
  {<<>>} \cup {<<x>> : x \in CmpIds \ {id}}
         \cup {<<x, y>> : x, y \in CmpIds \ {id}}

NextCmp ==
  \/ \E id \in CmpIds : \E ids \in CmpLists(id) :
       RuleRoom(sortAfterMap, id, MaxCmpRules) /\ sortAfter(id, ids)
  \/ \E id \in CmpIds : \E ids \in CmpLists(id) :
       RuleRoom(sortBeforeMap, id, MaxCmpRules) /\ sortBefore(id, ids)
  \/ \E id \in CmpIds : sortStart(<<id>>)
  \/ \E id \in CmpIds : sortEnd(<<id>>)
  \/ \E A \in CmpIds : \E B \in CmpIds \ {A} : compare(A, B)

SpecCmp == Init /\ [][NextCmp]_vars

Compared == ret.op = "compare"

Conflicts == {"Conflict with identifier", "Conflict with identifiers"}

\* y is x negated, or the same failure about the same identifiers
Negated(x, y) ==
  IF x.t = "return" THEN y.t = "return" /\ y.v = 0 - x.v
  ELSE /\ y.t = "throw"
       /\ y.kind = x.kind
       /\ Range(y.identifiers) = Range(x.identifiers)

\* C4: for every state of the rules and every pair of distinct identifiers,
\* compare(B, A) gives the negated number of compare(A, B), or fails with the
\* same kind of error naming the same identifier(s).
C4_Antisymmetric ==
  /\ \A A \in CmpIds : \A B \in CmpIds \ {A} :
       Negated(comparator(Store, A, B), comparator(Store, B, A))
  /\ Compared => Negated(ret.v, comparator(Store, ret.B, ret.A))

\* C4 witness: a comparison failed with a conflict about its first identifier
\* alone, and one returned -1
C4_Witness ==
  /\ Compared
  /\ ret.v.t = "throw" /\ ret.v.identifiers = <<ret.A>>
  /\ \E A \in CmpIds : \E B \in CmpIds \ {A} : comparator(Store, A, B) = Number(-1)

\* C5 (as claimed): whatever rules sortAfter, sortBefore, sortStart and
\* sortEnd have declared, a call of the comparator on two distinct identifiers
\* never fails with "Unknown combination".
C5_NoUnknownCombination ==
  Compared /\ ret.v.t = "throw" => ret.v.kind \in Conflicts

\* the rules with sortBefore(X, Y) taken out and sortAfter(Y, X) put in
BeforeAsAfter(st, X, Y) ==
  [st EXCEPT
     !.before = IF st.before[X] = {Y}
                  THEN [k \in (DOMAIN st.before) \ {X} |-> st.before[k]]
                  ELSE [st.before EXCEPT ![X] = @ \ {Y}],
     !.after = MapSet(st.after, Y, (IF MapHas(st.after, Y) THEN st.after[Y] ELSE {}) \cup {X})]

SameOutcome(x, y) ==
  IF x.t = "return" THEN y = x
  ELSE y.t = "throw" /\ y.kind = x.kind

\* C7 (as claimed): wherever sortBefore(X, Y) is declared, declaring
\* sortAfter(Y, X) in its place gives every compared pair the same outcome:
\* the same number, or the same kind of failure.
C7_BeforeIsAfter ==
  \A X \in DOMAIN sortBeforeMap : \A Y \in sortBeforeMap[X] :
    \A A \in CmpIds : \A B \in CmpIds \ {A} :
      SameOutcome(comparator(Store, A, B), comparator(BeforeAsAfter(Store, X, Y), A, B))

-----------------------------------------------------------------------------
(* Spec: fragments of the three kinds registered, and the schema prepared *)

\* { Query: { x: 1 } }
ResolversX == [Query |-> Map([x |-> Lit(1)])]
\* { Query: { x: 2, y: 3 } }
ResolversXY == [Query |-> Map([x |-> Lit(2), y |-> Lit(3)])]
\* { Query: f }, a function in the place of a type's resolvers
ResolversLeaf == [Query |-> Lit(5)]
\* { Query: { x: { p: 1 } }, Mutation: { y: 4 } }
ResolversDeep == [Query |-> Map([x |-> Map([p |-> Lit(1)])]),
                  Mutation |-> Map([y |-> Lit(4)])]

\* the literals an identifier's resolvers are taken from
ResolversOf == [A |-> {ResolversX, ResolversDeep},
                B |-> {ResolversXY, ResolversLeaf},
                C |-> {ResolversLeaf}]

\* { x: class, y: class }, the classes told apart by the identifier
DirectivesOf == [A |-> [x |-> Lit(6), y |-> Lit(7)], B |-> [x |-> Lit(8)]]

\* a source graphql-tag parses, a document, and a source it does not parse
DefinitionsOf(id) == {[t |-> "string", src |-> SourceOf[id]],
                      [t |-> "doc", src |-> SourceOf[id]],
                      [t |-> "string", src |-> "type {"]}

ResolverIds == {"A", "B", "C"}
DefinitionIds == {"A"}
DirectiveIds == {"A", "B"}
MaxRules == 1
MaxMarks == 1

Next ==
  \/ \E id \in DefinitionIds : \E d \in DefinitionsOf(id) : addDefinions(id, d)
  \/ \E id \in ResolverIds : \E r \in ResolversOf[id] : addResolvers(id, r)
  \/ \E id \in DirectiveIds : addDirectives(id, DirectivesOf[id])
  \/ RuleRoom(sortAfterMap, "A", MaxRules) /\ sortAfter("A", <<"B">>)
  \/ RuleRoom(sortBeforeMap, "C", MaxRules) /\ sortBefore("C", <<"A">>)
  \/ MarkRoom(sortStartSet, "C", MaxMarks) /\ sortStart(<<"C">>)
  \/ MarkRoom(sortEndSet, "A", MaxMarks) /\ sortEnd(<<"A">>)
  \/ prepareSchema
  \/ buildSchema

Spec == Init /\ [][Next]_vars

-----------------------------------------------------------------------------
(* Claims about registration *)

\* the resolvers or directives fragment held under id, written out
FragmentOf(h, entries, id) == Content(h, Obj(EntryOf(entries, id).val))

\* every entry stays where it is, holding what it held
KeepsEntries(before, after) ==
  \A i \in DOMAIN before : i \in DOMAIN after /\ after[i] = before[i]

\* a step that registers, or fails to register, the literal under id
RegistersResolvers(id, literal) ==
  IF hasResolvers(id)
    THEN /\ ret' = DuplicateError("resolvers", id)
         /\ UNCHANGED <<registry, rules, async, engine>>
    ELSE /\ ret'.t = "return"
         /\ id \in Keys(resolvers')
         /\ Content(heap', Obj(EntryOf(resolvers', id).val)) = Map(literal)
         /\ UNCHANGED <<definitions, directives, rules, async, engine>>

RegistersDirectives(id, literal) ==
  IF hasDirectives(id)
    THEN /\ ret' = DuplicateError("directives", id)
         /\ UNCHANGED <<registry, rules, async, engine>>
    ELSE /\ ret'.t = "return"
         /\ id \in Keys(directives')
         /\ Content(heap', Obj(EntryOf(directives', id).val)) = Map(literal)
         /\ UNCHANGED <<definitions, resolvers, rules, async, engine>>

RegistersDefinitions(id, d) ==
  IF hasDefinitions(id)
    THEN /\ ret' = DuplicateError("definitions", id)
         /\ UNCHANGED <<registry, rules, async, engine>>
    ELSE /\ ret'.t = "return"
         /\ id \in Keys(definitions')
         /\ EntryOf(definitions', id).val = Document(d.src)
         /\ UNCHANGED <<resolvers, directives, heap, rules, async, engine>>

\* C6: no kind ever holds two fragments under one identifier; a registration
\* under a (kind, id) that holds a fragment fails with the duplicate error and
\* changes nothing; a registration (of a source that parses) under a (kind, id)
\* that holds none succeeds and stores the fragment, whatever the other kinds
\* hold; and no step replaces, moves or removes a stored entry.
C6_FirstRegistrationStays ==
  /\ [](/\ Cardinality(Keys(definitions)) = Len(definitions)
        /\ Cardinality(Keys(resolvers)) = Len(resolvers)
        /\ Cardinality(Keys(directives)) = Len(directives))
  /\ [][ /\ KeepsEntries(definitions, definitions')
         /\ KeepsEntries(resolvers, resolvers')
         /\ KeepsEntries(directives, directives')
         /\ \A id \in ResolverIds : \A r \in ResolversOf[id] :
              addResolvers(id, r) => RegistersResolvers(id, r)
         /\ \A id \in DirectiveIds :
              addDirectives(id, DirectivesOf[id]) => RegistersDirectives(id, DirectivesOf[id])
         /\ \A id \in DefinitionIds : \A d \in DefinitionsOf(id) :
              (addDefinions(id, d) /\ d.src \in ValidSources) => RegistersDefinitions(id, d)
       ]_vars

\* C6 witness: a second registration of resolvers under A was refused while A
\* also holds definitions and directives, registered after the resolvers
C6_Witness ==
  /\ ret = DuplicateError("resolvers", "A")
  /\ hasResolvers("A") /\ hasDefinitions("A") /\ hasDirectives("A")
  /\ Len(resolvers) = 3

-----------------------------------------------------------------------------
(* Claims about the build *)

\* the fragments a kind holds stay as they are written out
KeepsContent(entries) ==
  \A i \in DOMAIN entries :
    Content(heap', Obj(entries[i].val)) = Content(heap, Obj(entries[i].val))

\* C8 (as claimed): a call of prepareSchema, returning or failing, leaves the
\* three collections, the content of every stored resolvers and directives
\* fragment (nested mappings included), the known identifiers and the rules
\* as they were.
C8_PrepareSchemaIsPure ==
  [][prepareSchema =>
       /\ UNCHANGED <<definitions, resolvers, directives, importedIdentifiers, rules, async, engine>>
       /\ KeepsContent(resolvers)
       /\ KeepsContent(directives)]_vars

\* a over which b is written: mappings merged key by key, anything else taken
\* from b
RECURSIVE LastWriterWins(_, _)
LastWriterWins(a, b) ==
  IF a.t = "map" /\ b.t = "map"
    THEN Map([k \in (DOMAIN a.m) \cup (DOMAIN b.m) |->
                IF k \notin DOMAIN b.m THEN a.m[k]
                ELSE IF k \notin DOMAIN a.m THEN b.m[k]
                ELSE LastWriterWins(a.m[k], b.m[k])])
    ELSE b

\* the fragments named by ids written one after the other over acc
RECURSIVE WrittenInOrder(_, _, _, _)
WrittenInOrder(h, entries, ids, acc) ==
  IF ids = <<>> THEN acc
  ELSE WrittenInOrder(h, entries, Tail(ids),
                      LastWriterWins(acc, FragmentOf(h, entries, Head(ids))))

\* C9 (as claimed): what prepareSchema returns for resolvers and for
\* directives is the fragments of the kind, in the order computed, written
\* one after the other over an empty mapping, last writer winning.
C9_MergeIsLastWriterWins ==
  [][(prepareSchema /\ ret'.t = "return") =>
       /\ Len(resolvers) > 0 =>
            ret'.v.resolvers =
              WrittenInOrder(heap, resolvers, ret'.order.resolvers, Map(EmptyObject))
       /\ Len(directives) > 0 =>
            ret'.v.schemaDirectives =
              WrittenInOrder(heap, directives, ret'.order.directives, Map(EmptyObject))]_vars

-----------------------------------------------------------------------------
(* SpecMerge: four resolvers fragments that write a number and a mapping    *)
(* under the same key, and the schema prepared again and again               *)

\* { Query: { x: { p: 1 } } }
ResolversP == [Query |-> Map([x |-> Map([p |-> Lit(1)])])]
\* { Query: { x: 7 } }
ResolversSeven == [Query |-> Map([x |-> Lit(7)])]
\* { Query: { x: { y: 2 } } }
ResolversY == [Query |-> Map([x |-> Map([y |-> Lit(2)])])]

MergeIds == {"A", "B", "C", "D"}

\* the literal an identifier's resolvers are taken from
MergeResolversOf == [A |-> ResolversX, B |-> ResolversP,
                     C |-> ResolversSeven, D |-> ResolversY]

NextMerge ==
  \/ addDefinions("A", [t |-> "string", src |-> SourceOf["A"]])
  \/ \E id \in MergeIds : addResolvers(id, MergeResolversOf[id])
  \/ prepareSchema
  \/ buildSchema

SpecMerge == Init /\ [][NextMerge]_vars

-----------------------------------------------------------------------------
(* Claims about building again *)

\* what a call gave, the count of calls in a row left out
Outcome(r) == [k \in (DOMAIN r) \ {"nth"} |-> r[k]]

Built == ret.op = "buildSchema"

\* what the call of prepareSchema gave, made by the program or by buildSchema
PreparedBy(r) ==
  IF r.op = "buildSchema" THEN r.prepared
  ELSE [k \in (DOMAIN Outcome(r)) \ {"op"} |-> r[k]]

\* C10 (as claimed): a call of prepareSchema that follows a call of
\* prepareSchema, nothing registered or declared in between, gives what that
\* call gave: the same error, or the same order of typeDefs and the same
\* merged resolvers and directives; and so for the calls of prepareSchema
\* that buildSchema makes.
C10_BuildIsDeterministic ==
  [][((Prepared \/ Built) /\ (prepareSchema \/ buildSchema))
       => PreparedBy(ret') = PreparedBy(ret)]_vars

-----------------------------------------------------------------------------
(* SpecTies: definitions under identifiers without marks, registered one     *)
(* after the other, the first of them ordered by sortBefore                  *)

\* how many definitions are registered: one more than the ten entries up to
\* which V8 before 7.0 sorts by insertion
MaxTies == 11
MaxTieRules == 2

\* the identifiers in the order they are registered: I1, I2, ...
TieId(i) == "I" \o ToString(i)

\* the identifiers rules are declared on
TieRuleIds == {"I1", "I2", "I3"}

NextTies ==
  \/ /\ Len(definitions) < MaxTies
     /\ addDefinions(TieId(Len(definitions) + 1),
                     [t |-> "string", src |-> ChainSource(Len(definitions) + 1)])
  \/ \E id \in TieRuleIds : \E o \in TieRuleIds \ {id} :
       RuleRoom(sortBeforeMap, id, MaxTieRules) /\ sortBefore(id, <<o>>)
  \/ prepareSchema

SpecTies == Init /\ [][NextTies]_vars

-----------------------------------------------------------------------------
(* Claims about ties *)

\* the comparator reports X and Y unordered
Tied(X, Y) == comparator(Store, X, Y) = Number(0)

\* C11 (as claimed): whenever prepareSchema succeeds, any two identifiers of
\* a kind that the comparator reports unordered stand in the kind's output in
\* the order in which they were registered.
C11_TiesKeepRegistrationOrder ==
  PreparedOk =>
    \A k \in 1..3 : \A X, Y \in Range(KindsIn[k]) :
      (X # Y /\ Tied(X, Y) /\ Pos(KindsIn[k], X) < Pos(KindsIn[k], Y))
        => Pos(KindsOut[k], X) < Pos(KindsOut[k], Y)

-----------------------------------------------------------------------------
(* SpecRules: after- and before-lists declared and declared again *)

NextRules ==
  \/ \E id \in CmpIds : \E ids \in CmpLists(id) :
       RuleRoom(sortAfterMap, id, MaxCmpRules) /\ sortAfter(id, ids)
  \/ \E id \in CmpIds : \E ids \in CmpLists(id) :
       RuleRoom(sortBeforeMap, id, MaxCmpRules) /\ sortBefore(id, ids)

SpecRules == Init /\ [][NextRules]_vars

-----------------------------------------------------------------------------
(* Claims about the declaration of rules *)

\* after is before with the set of id replaced by exactly S, nothing else touched
ReplacesSet(before, after, id, S) ==
  /\ DOMAIN after = (DOMAIN before) \cup {id}
  /\ after[id] = S
  /\ \A o \in (DOMAIN before) \ {id} : after[o] = before[o]

\* C12: a call of sortAfter (sortBefore) with a non-empty list leaves id with
\* exactly the given set as its after-set (before-set), whatever was declared
\* for it, and leaves the other relation, the sets of every other identifier,
\* the marks and the registry as they were; with an empty list it changes no
\* rule; and the same call made again would change nothing.
C12_DeclarationReplaces ==
  [][ \A id \in CmpIds : \A ids \in CmpLists(id) :
        /\ sortAfter(id, ids) =>
             /\ IF ids = <<>> THEN UNCHANGED sortAfterMap
                ELSE /\ ReplacesSet(sortAfterMap, sortAfterMap', id, Range(ids))
                     /\ MapSet(sortAfterMap', id, Range(ids)) = sortAfterMap'
             /\ UNCHANGED <<registry, sortBeforeMap, sortEndSet, sortStartSet>>
        /\ sortBefore(id, ids) =>
             /\ IF ids = <<>> THEN UNCHANGED sortBeforeMap
                ELSE /\ ReplacesSet(sortBeforeMap, sortBeforeMap', id, Range(ids))
                     /\ MapSet(sortBeforeMap', id, Range(ids)) = sortBeforeMap'
             /\ UNCHANGED <<registry, sortAfterMap, sortEndSet, sortStartSet>>
    ]_vars

\* C12 witness: A was declared after two identifiers and before one, the last
\* call having returned the builder
C12_Witness ==
  /\ ret = This
  /\ MapHas(sortAfterMap, "A") /\ sortAfterMap["A"] = {"B", "Query"}
  /\ MapHas(sortBeforeMap, "A") /\ sortBeforeMap["A"] = {"B"}

-----------------------------------------------------------------------------
(* SpecCmpFair: SpecCmp with a caller that keeps calling *)

SpecCmpFair == SpecCmp /\ WF_vars(NextCmp)

\* what the public operations keep: the start partition holds its defaults
StartKeepsDefault == DefaultStart \subseteq sortStartSet

\* C13 (as claimed): the caller gets, through the public operations, to a
\* builder whose start partition does not hold the built-in identifier Query,
\* so that Query compares with an unmarked identifier as unordered.
C13_QueryLeavesStart ==
  <>("Query" \notin sortStartSet /\ comparator(Store, "Query", "A") = Number(0))

-----------------------------------------------------------------------------
(* Claims about a build with nothing registered *)

\* C14 (as claimed): prepareSchema on a builder that holds no definitions
\* returns, with an empty sequence of definitions; and whenever it returns, a
\* kind (resolvers, directives) that holds no fragment is given as the empty
\* mapping.
C14_EmptyKindIsNoError ==
  Prepared =>
    /\ Len(definitions) = 0 => (ret.t = "return" /\ ret.v.typeDefs = <<>>)
    /\ (ret.t = "return" /\ Len(resolvers) = 0) => ret.v.resolvers = Map(EmptyObject)
    /\ (ret.t = "return" /\ Len(directives) = 0) => ret.v.schemaDirectives = Map(EmptyObject)

-----------------------------------------------------------------------------
(* importFile and importFrom *)

\* a path is known by its folder, its base name and its extension:
\* basename(path, extname(path)) and extname(path) read them off, and
\* join(folder, entry) puts the folder before an entry of readdir
Path(dir, base, ext) == [dir |-> dir, base |-> base, ext |-> ext]
extname(path) == path.ext
basename(path) == path.base
join(dir, entry) == Path(dir, entry.base, entry.ext)

\* the exports of a module: a field not exported is <<>>, an exported one is
\* the sequence of its one value
NoExports == [definitions |-> <<>>, resolvers |-> <<>>, directives |-> <<>>,
              sortAfter |-> <<>>, sortBefore |-> <<>>,
              sortStart |-> <<>>, sortEnd |-> <<>>]

\* the folders and the files on the disk: two folders, each with two files of
\* one base name
Folders == {"a", "c"}
AJs == Path("a", "A", ".js")
ATs == Path("a", "A", ".ts")
CJs == Path("c", "C", ".js")
CTs == Path("c", "C", ".ts")
Files == {AJs, ATs, CJs, CTs}

\* readdir(folder): the entries, in alphabetical order
readdirAsync(dir) ==
  IF dir = "a" THEN <<Path("", "A", ".js"), Path("", "A", ".ts")>>
  ELSE IF dir = "c" THEN <<Path("", "C", ".js"), Path("", "C", ".ts")>>
  ELSE <<>>

\* import(path): what the module at path exports
Module(path) ==
  IF path = AJs
    THEN [NoExports EXCEPT !.definitions = <<[t |-> "string", src |-> SourceOf.A]>>,
                           !.sortAfter = <<<<"C">>>>,
                           !.sortStart = <<TRUE>>]
  ELSE IF path = ATs
    THEN [NoExports EXCEPT !.resolvers = <<ResolversX>>,
                           !.sortBefore = <<<<"C">>>>,
                           !.sortEnd = <<TRUE>>]
  ELSE IF path = CJs
    THEN [NoExports EXCEPT !.sortAfter = <<<<"A">>>>,
                           !.sortBefore = <<<<"Query">>>>,
                           !.sortStart = <<FALSE>>]
  ELSE IF path = CTs
    THEN [NoExports EXCEPT !.definitions = <<[t |-> "doc", src |-> SourceOf.C]>>,
                           !.directives = <<DirectivesOf.A>>,
                           !.sortAfter = <<<<>>>>,
                           !.sortBefore = <<<<"A">>>>]
  ELSE NoExports

\* what importFile and importFrom are called with: the files, a path that
\* leads to no file, the folders, a path that leads to no folder
ImportPaths == Files \cup {Path("a", "B", ".js")}
ImportFolders == Folders \cup {"b"}
ImportExtensions == {<<".js">>, <<".js", ".ts">>}

\* the builder as one value, for the calls importFile makes one after another
\* without giving up control; thrown is <<>> or the error that ended them
Builder ==
  [definitions |-> definitions, resolvers |-> resolvers, directives |-> directives,
   heap |-> heap, importedIdentifiers |-> importedIdentifiers,
   sortAfterMap |-> sortAfterMap, sortBeforeMap |-> sortBeforeMap,
   sortEndSet |-> sortEndSet, sortStartSet |-> sortStartSet, thrown |-> <<>>]

\* the builder's variables take the values of b
Becomes(b) ==
  /\ definitions' = b.definitions
  /\ resolvers' = b.resolvers
  /\ directives' = b.directives
  /\ heap' = b.heap
  /\ importedIdentifiers' = b.importedIdentifiers
  /\ sortAfterMap' = b.sortAfterMap
  /\ sortBeforeMap' = b.sortBeforeMap
  /\ sortEndSet' = b.sortEndSet
  /\ sortStartSet' = b.sortStartSet

\* this.addDefinions(id, d) on the builder b; nothing is called once an error
\* is thrown
CallAddDefinions(b, id, d) ==
  IF b.thrown # <<>> THEN b
  ELSE IF id \in Keys(b.definitions)
    THEN [b EXCEPT !.thrown = <<DuplicateError("definitions", id)>>]
  ELSE LET doc == IF d.t = "string" THEN gql(d.src)
                                      ELSE [t |-> "return", v |-> Document(d.src)] IN
       IF doc.t = "throw"
         THEN [b EXCEPT !.importedIdentifiers = @ \cup {id},
                        !.thrown = <<[op |-> "add"] @@ doc>>]
         ELSE [b EXCEPT !.importedIdentifiers = @ \cup {id},
                        !.definitions = EntriesSet(@, id, doc.v)]

CallAddResolvers(b, id, literal) ==
  IF b.thrown # <<>> THEN b
  ELSE IF id \in Keys(b.resolvers)
    THEN [b EXCEPT !.thrown = <<DuplicateError("resolvers", id)>>]
  ELSE [b EXCEPT !.importedIdentifiers = @ \cup {id},
                 !.heap = NewObject(@, Ref("resolvers", id), literal),
                 !.resolvers = EntriesSet(@, id, Ref("resolvers", id))]

CallAddDirectives(b, id, literal) ==
  IF b.thrown # <<>> THEN b
  ELSE IF id \in Keys(b.directives)
    THEN [b EXCEPT !.thrown = <<DuplicateError("directives", id)>>]
  ELSE [b EXCEPT !.importedIdentifiers = @ \cup {id},
                 !.heap = NewObject(@, Ref("directives", id), literal),
                 !.directives = EntriesSet(@, id, Ref("directives", id))]

CallSortAfter(b, id, ids) ==
  IF b.thrown # <<>> \/ Len(ids) = 0 THEN b
  ELSE [b EXCEPT !.sortAfterMap = MapSet(@, id, Range(ids))]

CallSortBefore(b, id, ids) ==
  IF b.thrown # <<>> \/ Len(ids) = 0 THEN b
  ELSE [b EXCEPT !.sortBeforeMap = MapSet(@, id, Range(ids))]

CallSortStart(b, ids) ==
  IF b.thrown # <<>> THEN b ELSE [b EXCEPT !.sortStartSet = @ \cup Range(ids)]

CallSortEnd(b, ids) ==
  IF b.thrown # <<>> THEN b ELSE [b EXCEPT !.sortEndSet = @ \cup Range(ids)]

\* the statements of importFile that register what the module exports, one
\* `if` each, in the order of the source
ImportDefinitions(b, id, imported) ==
  IF imported.definitions # <<>>
    THEN CallAddDefinions(b, id, imported.definitions[1]) ELSE b

ImportResolvers(b, id, imported) ==
  IF imported.resolvers # <<>>
    THEN CallAddResolvers(b, id, imported.resolvers[1]) ELSE b

ImportDirectives(b, id, imported) ==
  IF imported.directives # <<>>
    THEN CallAddDirectives(b, id, imported.directives[1]) ELSE b

ImportSortAfter(b, id, imported) ==
  IF imported.sortAfter # <<>>
    THEN CallSortAfter(b, id, imported.sortAfter[1]) ELSE b

\* typeof imported.sortAfter === "object" && imported.sortBefore instanceof Array
ImportSortBefore(b, id, imported) ==
  IF imported.sortAfter # <<>> /\ imported.sortBefore # <<>>
    THEN CallSortBefore(b, id, imported.sortBefore[1]) ELSE b

ImportSortStart(b, id, imported) ==
  IF imported.sortStart # <<>> /\ imported.sortStart[1]
    THEN CallSortStart(b, <<id>>) ELSE b

ImportSortEnd(b, id, imported) ==
  IF imported.sortEnd # <<>> /\ imported.sortEnd[1]
    THEN CallSortEnd(b, <<id>>) ELSE b

\* importFile from `const imported = await import(path)` to the end of the
\* `if` around it
ImportExports(b, id, imported) ==
  ImportSortEnd(
    ImportSortStart(
      ImportSortBefore(
        ImportSortAfter(
          ImportDirectives(
            ImportResolvers(
              ImportDefinitions(b, id, imported),
              id, imported),
            id, imported),
          id, imported),
        id, imported),
      id, imported),
    id, imported)

\* new Error(`Cannot import id ${id} multiple times. Check import path.`) and
\* new Error(`Cannot import id "${id}" multiple times. Check import directory
\* or allowed extensions.`)
ImportError(id, check) ==
  [t |-> "reject", error |-> "Error", kind |-> "multiple times", id |-> id,
   check |-> check]

Resolved(v) == [t |-> "resolve", v |-> v]
Rejected(e) == [t |-> "reject"] @@ e

\* a call that is not under way: its place can take the next call
Settled(c) == c.pc \in {"idle", "resolved", "rejected"}

\* importFile up to its first await, on a builder with the identifiers ids
\* imported: the duplicate is thrown, or the call waits for stat
EnterFile(c, ids, path) ==
  IF basename(path) \in ids
    THEN [c EXCEPT !.pc = "rejected", !.path = path,
                   !.out = ImportError(basename(path), "import path")]
    ELSE [c EXCEPT !.pc = "stat", !.path = path]

\* the loop of importFrom from the entry it has come to, up to the next
\* await or to the end of the call
RECURSIVE LoopFrom(_, _)
LoopFrom(c, ids) ==
  IF c.todo = <<>>
    THEN [c EXCEPT !.pc = "resolved", !.out = Resolved(c.imports)]
  ELSE LET entry == Head(c.todo)
           rest == [c EXCEPT !.todo = Tail(c.todo)] IN
       IF extname(entry) \notin Range(c.exts) THEN LoopFrom(rest, ids)
       ELSE IF basename(entry) \in ids
         THEN [rest EXCEPT !.pc = "rejected",
                           !.out = ImportError(basename(entry),
                                               "import directory or allowed extensions")]
       ELSE EnterFile(rest, ids, join(c.dir, entry))

\* importFile is settled with x: the call of the program is over; an
\* importFrom that awaits the importFile goes on in a later job of the
\* event loop, and waits till then
SettleFile(c, x) ==
  IF c.op = "importFile"
    THEN [c EXCEPT !.pc = IF x.t = "reject" THEN "rejected" ELSE "resolved", !.out = x]
    ELSE [c EXCEPT !.pc = "awaitFile", !.inner = x]

\* importFile from its last `if` on, on a builder with the identifiers ids
\* imported: importFile resolves with the identifier or with undefined
LeaveFile(c, ids) ==
  SettleFile(c, IF basename(c.path) \in ids
                  THEN Resolved(<<basename(c.path)>>) ELSE Resolved(<<>>))

\* the call importFile(path), made where the call p stood
importFile(p, path) ==
  /\ Settled(calls[p])
  /\ calls' = [calls EXCEPT ![p] =
                 EnterFile([NoCall EXCEPT !.op = "importFile"],
                           importedIdentifiers, path)]
  /\ ret' = [t |-> "return", op |-> "importFile", v |-> "promise"]
  /\ UNCHANGED <<registry, rules, loaded, engine>>

\* importFile goes on after `await statAsync(path)`
importFileStat(p) ==
  /\ calls[p].pc = "stat"
  /\ calls' = [calls EXCEPT ![p] =
                 IF calls[p].path \in Files THEN [@ EXCEPT !.pc = "import"]
                 ELSE LeaveFile(@, importedIdentifiers)]
  /\ UNCHANGED <<registry, rules, ret, loaded, engine>>

\* import(path) evaluates the module, while importFile still waits for it
importModule(p) ==
  /\ calls[p].pc = "import"
  /\ calls' = [calls EXCEPT ![p].pc = "imported"]
  /\ loaded' = loaded \cup {calls[p].path}
  /\ UNCHANGED <<registry, rules, ret, engine>>

\* importFile goes on after `await import(path)`: an error thrown by a method
\* of the builder rejects the call
importFileImport(p) ==
  /\ calls[p].pc = "imported"
  /\ LET b == ImportExports(Builder, basename(calls[p].path), Module(calls[p].path)) IN
       /\ Becomes(b)
       /\ calls' = [calls EXCEPT ![p] =
                      IF b.thrown # <<>>
                        THEN SettleFile(@, Rejected(b.thrown[1]))
                        ELSE LeaveFile(@, b.importedIdentifiers)]
  /\ UNCHANGED <<ret, loaded, engine>>

\* the call importFrom(path, extensions), made where the call p stood
importFrom(p, dir, exts) ==
  /\ Settled(calls[p])
  /\ calls' = [calls EXCEPT ![p] =
                 [NoCall EXCEPT !.op = "importFrom", !.pc = "statDir",
                                !.dir = dir, !.exts = exts]]
  /\ ret' = [t |-> "return", op |-> "importFrom", v |-> "promise"]
  /\ UNCHANGED <<registry, rules, loaded, engine>>

\* importFrom goes on after `await statAsync(path)`
importFromStat(p) ==
  /\ calls[p].pc = "statDir"
  /\ calls' = [calls EXCEPT ![p] =
                 IF calls[p].dir \in Folders THEN [@ EXCEPT !.pc = "readdir"]
                 ELSE [@ EXCEPT !.pc = "resolved", !.out = Resolved(<<>>)]]
  /\ UNCHANGED <<registry, rules, ret, loaded, engine>>

\* importFrom goes on after `await readdirAsync(path)`
importFromReaddir(p) ==
  /\ calls[p].pc = "readdir"
  /\ calls' = [calls EXCEPT ![p] =
                 LoopFrom([@ EXCEPT !.todo = readdirAsync(calls[p].dir)],
                          importedIdentifiers)]
  /\ UNCHANGED <<registry, rules, ret, loaded, engine>>

\* importFrom goes on after `await this.importFile(join(path, entry))`: the
\* error of the importFile rejects it, else it pushes the identifier and
\* looks at the next entry
importFromFile(p) ==
  /\ calls[p].pc = "awaitFile"
  /\ calls' = [calls EXCEPT ![p] =
                 IF calls[p].inner.t = "reject"
                   THEN [@ EXCEPT !.pc = "rejected", !.out = calls[p].inner]
                   ELSE LoopFrom([@ EXCEPT !.imports = Append(@, basename(calls[p].path)),
                                           !.inner = [t |-> "pending"]],
                                 importedIdentifiers)]
  /\ UNCHANGED <<registry, rules, ret, loaded, engine>>

-----------------------------------------------------------------------------
(* SpecImport: modules imported by calls that run along each other, and    *)
(* along calls the program makes of the builder's methods                   *)

NextImport ==
  \/ \E p \in Procs : \E path \in ImportPaths : importFile(p, path)
  \/ \E p \in Procs : importFileStat(p)
  \/ \E p \in Procs : importModule(p)
  \/ \E p \in Procs : importFileImport(p)
  \/ \E p \in Procs : \E dir \in ImportFolders : \E exts \in ImportExtensions :
       importFrom(p, dir, exts)
  \/ \E p \in Procs : importFromStat(p)
  \/ \E p \in Procs : importFromReaddir(p)
  \/ \E p \in Procs : importFromFile(p)
  \/ sortAfter("C", <<"B">>)
  \/ addResolvers("C", ResolversX)

SpecImport == Init /\ [][NextImport]_vars

-----------------------------------------------------------------------------
(* Claims about imports *)

\* a module of the set L has the base name of path
UsedBy(L, path) == \E q \in L : basename(q) = basename(path)

\* C15: while no other call is under way, importFile, called by the program
\* or by the loop of importFrom, never gets past its duplicate check for a file
\* whose base name is that of a module imported earlier: the call is rejected
\* there, before the module is loaded and before any method of the builder is
\* called for it.
C15_DuplicateUnitIsRejected ==
  [][\A p \in Procs :
       (/\ calls[p].pc # "stat" /\ calls'[p].pc = "stat"
        /\ \A q \in Procs \ {p} : Settled(calls'[q]))
         => ~UsedBy(loaded', calls'[p].path)]_vars

\* the rules of the builder's next state hold what the module exports for id
DeclaresOrdering(id, imported) ==
  /\ (imported.sortAfter # <<>> /\ Len(imported.sortAfter[1]) > 0)
       => (MapHas(sortAfterMap', id) /\ sortAfterMap'[id] = Range(imported.sortAfter[1]))
  /\ (imported.sortBefore # <<>> /\ Len(imported.sortBefore[1]) > 0)
       => (MapHas(sortBeforeMap', id) /\ sortBeforeMap'[id] = Range(imported.sortBefore[1]))
  /\ (imported.sortStart # <<>> /\ imported.sortStart[1]) => id \in sortStartSet'
  /\ (imported.sortEnd # <<>> /\ imported.sortEnd[1]) => id \in sortEndSet'

\* C16: when importFile has loaded a module and registered its fragments
\* without an error, every ordering field the module exports is declared for
\* the base name of the file: the after-list, the before-list, sortStart = true
\* and sortEnd = true, each whatever the other fields are.
C16_OrderingFieldsAreDeclared ==
  [][\A p \in Procs :
       (/\ importFileImport(p)
        /\ ImportExports(Builder, basename(calls[p].path), Module(calls[p].path)).thrown = <<>>)
         => DeclaresOrdering(basename(calls[p].path), Module(calls[p].path))]_vars

\* a fragment the module at path exports is held by the registry under the
\* base name of path
Contributed(path) ==
  LET id == basename(path)
      imported == Module(path) IN
  \/ /\ imported.definitions # <<>>
     /\ hasDefinitions(id)
     /\ EntryOf(definitions, id).val = Document(imported.definitions[1].src)
  \/ /\ imported.resolvers # <<>>
     /\ hasResolvers(id)
     /\ FragmentOf(heap, resolvers, id) = Map(imported.resolvers[1])
  \/ /\ imported.directives # <<>>
     /\ hasDirectives(id)
     /\ FragmentOf(heap, directives, id) = Map(imported.directives[1])

\* C17: of two files with one base name at most one has fragments in the
\* registry, however the calls of importFile that import them are interleaved
\* at their awaits.
C17_OneUnitPerIdentifier ==
  \A q1, q2 \in Files :
    (q1 # q2 /\ basename(q1) = basename(q2)) => ~(Contributed(q1) /\ Contributed(q2))

-----------------------------------------------------------------------------
(* Claims about the comparator's table *)

\* a signal puts X ahead of Y: X is in start and Y is not, Y is in end and X
\* is not, or Y must follow X
PutsFirst(X, Y) ==
  \/ X \in sortStartSet /\ Y \notin sortStartSet
  \/ Y \in sortEndSet /\ X \notin sortEndSet
  \/ MustFollow(Store, Y, X)

\* one of the opposite signals is raised: Y in start, X in end, X must follow Y
Opposed(X, Y) == Y \in sortStartSet \/ X \in sortEndSet \/ MustFollow(Store, X, Y)

\* nothing is declared about X and Y, or only that both are in start, or only
\* that both are in end
NothingBetween(X, Y) ==
  /\ ~MustFollow(Store, X, Y) /\ ~MustFollow(Store, Y, X)
  /\ \/ {X, Y} \cap (sortStartSet \cup sortEndSet) = {}
     \/ {X, Y} \subseteq sortStartSet /\ {X, Y} \cap sortEndSet = {}
     \/ {X, Y} \subseteq sortEndSet /\ {X, Y} \cap sortStartSet = {}

\* C18: a call of the comparator on (A, B) returns -1 when a signal puts A
\* first and no opposite signal is raised, +1 when a signal puts B first and
\* none of its opposites is raised, and 0 when nothing is declared about the
\* pair, or only both in start, or only both in end.
C18_SignalsDecideTheSign ==
  Compared =>
    /\ (PutsFirst(ret.A, ret.B) /\ ~Opposed(ret.A, ret.B)) => ret.v = Number(-1)
    /\ (PutsFirst(ret.B, ret.A) /\ ~Opposed(ret.B, ret.A)) => ret.v = Number(1)
    /\ NothingBetween(ret.A, ret.B) => ret.v = Number(0)

\* C18 witness: A in start, B in end, sortAfter(B, A) and sortBefore(A, B)
\* all at once, and the comparator returned -1
C18_Witness ==
  /\ Compared
  /\ ret.A \in sortStartSet /\ ret.B \in sortEndSet
  /\ MapHas(sortAfterMap, ret.B) /\ ret.A \in sortAfterMap[ret.B]
  /\ MapHas(sortBeforeMap, ret.A) /\ ret.B \in sortBeforeMap[ret.A]
  /\ ~Opposed(ret.A, ret.B)
  /\ ret.v = Number(-1)

\* X is in both the start and the end partition
InBoth(X) == X \in sortStartSet /\ X \in sortEndSet

\* the signal word of a pair with no after / before rule between them
MarksWord(X, Y) ==
    (IF X \in sortStartSet THEN 1 ELSE 0) + (IF Y \in sortStartSet THEN 2 ELSE 0)
  + (IF X \in sortEndSet THEN 4 ELSE 0) + (IF Y \in sortEndSet THEN 8 ELSE 0)

\* C19: a call of the comparator on (A, B), with no after / before rule
\* between A and B and one of them in both start and end, throws a conflict
\* that carries the signal word and names those of A and B that are in both
\* partitions, and nothing else.
C19_ConflictNamesTheContradictory ==
  (/\ Compared
   /\ ~MustFollow(Store, ret.A, ret.B) /\ ~MustFollow(Store, ret.B, ret.A)
   /\ (InBoth(ret.A) \/ InBoth(ret.B)))
    => /\ ret.v.t = "throw"
       /\ ret.v.kind \in Conflicts
       /\ ret.v.n = MarksWord(ret.A, ret.B)
       /\ ret.v.identifiers = SelectSeq(<<ret.A, ret.B>>, LAMBDA X : InBoth(X))
       /\ ret.v.kind = "Conflict with identifiers" <=> (InBoth(ret.A) /\ InBoth(ret.B))

\* C19 witness: B in start and in end, A in start only, no rule between
\* them, and the comparator threw the conflict with B alone
C19_Witness ==
  /\ Compared
  /\ InBoth(ret.B) /\ ret.A \in sortStartSet /\ ret.A \notin sortEndSet
  /\ ~MustFollow(Store, ret.A, ret.B) /\ ~MustFollow(Store, ret.B, ret.A)
  /\ ret.v = sortError("Conflict with identifier", 11, <<ret.B>>)

-----------------------------------------------------------------------------
(* Claims about has *)

CallIds == DefinitionIds \cup ResolverIds \cup DirectiveIds

\* C20 (as claimed): after any calls, those that throw included, has(id) is
\* true exactly when one of hasDefinitions(id), hasResolvers(id),
\* hasDirectives(id) is.
C20_HasIsAnyKind ==
  \A id \in CallIds :
    has(id) <=> (hasDefinitions(id) \/ hasResolvers(id) \/ hasDirectives(id))

-----------------------------------------------------------------------------
(* SpecLone: a kind that holds one fragment, under any rules on A and B *)

LoneIds == {"A", "B"}

NextLone ==
  \/ addDefinions("A", [t |-> "string", src |-> SourceOf.A])
  \/ addResolvers("A", ResolversX)
  \/ addResolvers("B", ResolversXY)
  \/ \E id \in LoneIds : \E o \in LoneIds \ {id} : sortAfter(id, <<o>>)
  \/ \E id \in LoneIds : \E o \in LoneIds \ {id} : sortBefore(id, <<o>>)
  \/ \E id \in LoneIds : sortStart(<<id>>)
  \/ \E id \in LoneIds : sortEnd(<<id>>)
  \/ prepareSchema

SpecLone == Init /\ [][NextLone]_vars

-----------------------------------------------------------------------------
(* Claims about a kind with one fragment *)

\* the fragments of the three kinds
KindsHeld == <<definitions, resolvers, directives>>

\* C21: the sort of a kind that holds one fragment never throws, whatever the
\* rules are, and gives that fragment; and a sort error thrown by prepareSchema
\* names identifiers that all hold a fragment of one kind with two fragments
\* or more.
C21_LoneFragmentIsNotCompared ==
  /\ \A k \in 1..3 :
       Len(KindsHeld[k]) = 1 =>
         /\ applySortAndMap(Store, KindsHeld[k]).t = "return"
         /\ applySortAndMap(Store, KindsHeld[k]).ids = Ids(KindsHeld[k])
  /\ (Prepared /\ ret.t = "throw" /\ ret.error = "SortError") =>
       \E k \in 1..3 :
         /\ Len(KindsHeld[k]) >= 2
         /\ Range(ret.identifiers) \subseteq Keys(KindsHeld[k])

\* C21 witness: A alone holds definitions and resolvers, A is in start and
\* in end, A and B are declared after each other, and prepareSchema returned
C21_Witness ==
  /\ PreparedOk
  /\ Ids(definitions) = <<"A">> /\ Ids(resolvers) = <<"A">>
  /\ "A" \in sortStartSet /\ "A" \in sortEndSet
  /\ MapHas(sortAfterMap, "A") /\ "B" \in sortAfterMap["A"]
  /\ MapHas(sortAfterMap, "B") /\ "A" \in sortAfterMap["B"]
  /\ ret.order.definitions = <<"A">>

====
